---- MODULE Spec2Model ----
(***************************************************************************)
(* A model of mtbl-rs: the Rust wrappers Writer, Reader/Iter, Sorter and   *)
(* Merger (src/src/*.rs) over the mtbl storage engine (mtbl_sys).  The     *)
(* wrappers are translated from the Rust source; the engine they call is   *)
(* not part of the source tree and is modelled from the specification      *)
(* (sections 3 and 4: codec, index, reader, writer, sorter, merger).       *)
(*                                                                         *)
(* Byte strings are sequences of small naturals.  Option<T> is a sequence  *)
(* of length at most one: <<>> is None and <<x>> is Some(x).               *)
(***************************************************************************)
EXTENDS Integers, Sequences, FiniteSets, TLC

VARIABLES
    writer,        \* Option<Writer>: the Writer under construction, None once dropped
    disk,          \* the bytes of the output file as they are on disk
    reader,        \* Option<Reader>: the Reader opened on the output file
    iter,          \* Option<Iter>: the iterator currently being stepped
    out,           \* the (key, value) pairs the iterator has yielded so far
    ended,         \* TRUE once Iter::next returned None
    lastGet,       \* Option<[key, res]>: the last Read::get call and its result
    lastOp,        \* Option<[kind, items, res]>: the last Writer call and its result
    prevWriter,    \* the Writer as it was before the last Writer call
    accepted,      \* history: the entries whose add returned Ok, in call order
    prevAccepted,  \* history: accepted as it was before the last Writer call
    rejected,      \* history: the keys whose add returned Err
    recovered,     \* history: an add returned Ok after an earlier add returned Err
    ncalls,        \* number of entries handed to the Writer so far
    query,         \* Option<[kind, k0, k1]>: the call that created the iterator
    sorter,        \* Option<Sorter>: the Sorter (it owns its Writer), None once dropped
    scalls,        \* history: the entries added to the Sorter, in call order
    mergeFn,       \* the merge function the Sorter or Merger was created with
    maxMemory,     \* Option<usize>: the max_memory the SorterOptions were given
    merger,        \* Option<Merger>: the Merger (it owns its source Readers)
    msources,      \* history: the entries of each source file, in insertion order
    mergeCalls,    \* history: the calls of the merge function made by the last Merger call
    threads,       \* per thread sharing the Reader: its iterator, what it yielded, its query
    fileset,       \* Option<Fileset>: the Fileset opened on the setfile
    setfile,       \* the listing in the setfile as it is on disk: a sequence of file names
    now            \* the wall clock, in seconds

wvars == <<writer, disk, reader, iter, out, ended, lastGet, lastOp, prevWriter,
           accepted, prevAccepted, rejected, recovered, ncalls, query>>

svars == <<sorter, scalls, mergeFn, maxMemory>>

mvars == <<merger, msources, mergeCalls>>

pvars == <<threads>>

fvars == <<fileset, setfile, now>>

vars == <<wvars, svars, mvars, pvars, fvars>>

(***************************************************************************)
(* Bounds of the model.                                                    *)
(***************************************************************************)
Bytes == {1, 2}
Keys == {<<>>} \cup {<<a>> : a \in Bytes} \cup {<<a, b>> : a, b \in Bytes}
Values == {<<1>>, <<2>>}
Entries == [key : Keys, val : Values]
MaxAdds == 3
BlockSize == 10
BlockRestartInterval == 2
MaxSorterAdds == 4
DefaultBlockSize == 8192
DefaultBlockRestartInterval == 16
DefaultMaxMemory == 1073741824

None == <<>>
Some(x) == <<x>>

\* the threads that share one Reader or Merger, and a thread that holds no
\* iterator and is not inside a call
Threads == {"t1", "t2"}
IdleThread == [iter |-> None, out |-> <<>>, ended |-> FALSE, query |-> None, count |-> 0,
               pc |-> "idle"]
IdleThreads == [t \in Threads |-> IdleThread]
Min(a, b) == IF a < b THEN a ELSE b
Last(s) == s[Len(s)]

(***************************************************************************)
(* Key order (spec 3): unsigned lexicographic byte order, computed the way *)
(* a memcmp over the common length followed by a length comparison does.   *)
(***************************************************************************)
RECURSIVE memcmp(_, _, _, _)
memcmp(a, b, i, n) ==
    IF i > n THEN 0
    ELSE IF a[i] < b[i] THEN -1
    ELSE IF a[i] > b[i] THEN 1
    ELSE memcmp(a, b, i + 1, n)

bytes_compare(a, b) ==
    LET r == memcmp(a, b, 1, Min(Len(a), Len(b)))
    IN  IF r # 0 THEN r
        ELSE IF Len(a) < Len(b) THEN -1
        ELSE IF Len(a) > Len(b) THEN 1
        ELSE 0

(***************************************************************************)
(* Codec (spec 4.1).  A block is built entry by entry.  At a restart point *)
(* the full key is stored; otherwise only the length of the prefix shared  *)
(* with the previous key and the differing suffix.  A finished block       *)
(* carries its restart table and a checksum over the uncompressed block.   *)
(***************************************************************************)
RECURSIVE shared_prefix_len(_, _, _)
shared_prefix_len(a, b, i) ==
    IF i < Len(a) /\ i < Len(b) /\ a[i + 1] = b[i + 1]
    THEN shared_prefix_len(a, b, i + 1)
    ELSE i

block_builder_init == [recs |-> <<>>, restarts |-> <<>>, counter |-> 0, last_key |-> <<>>]

block_builder_add(b, key, val, restart_interval) ==
    LET restart == b.recs = <<>> \/ b.counter >= restart_interval
        shared  == IF restart THEN 0 ELSE shared_prefix_len(b.last_key, key, 0)
        rec     == [shared |-> shared,
                    unshared |-> SubSeq(key, shared + 1, Len(key)),
                    val |-> val]
    IN  [recs     |-> Append(b.recs, rec),
         restarts |-> IF restart THEN Append(b.restarts, Len(b.recs) + 1) ELSE b.restarts,
         counter  |-> IF restart THEN 1 ELSE b.counter + 1,
         last_key |-> key]

RECURSIVE sum_bytes(_)
sum_bytes(s) == IF s = <<>> THEN 0 ELSE Head(s) + sum_bytes(Tail(s))

RECURSIVE recs_checksum(_)
recs_checksum(recs) ==
    IF recs = <<>> THEN 0
    ELSE (Head(recs).shared + sum_bytes(Head(recs).unshared) + sum_bytes(Head(recs).val)
          + 3 * recs_checksum(Tail(recs))) % 251

block_builder_finish(b) ==
    [recs |-> b.recs, restarts |-> b.restarts, crc |-> recs_checksum(b.recs)]

\* bytes one record adds to the uncompressed block: three length fields and the data
rec_bytes(rec) == 3 + Len(rec.unshared) + Len(rec.val)

RECURSIVE recs_bytes(_)
recs_bytes(recs) == IF recs = <<>> THEN 0 ELSE rec_bytes(Head(recs)) + recs_bytes(Tail(recs))

block_bytes(blk) == recs_bytes(blk.recs) + Len(blk.restarts) + 1

\* decoding rebuilds every key from the previous key and the stored suffix
RECURSIVE decode_recs(_, _)
decode_recs(recs, prev_key) ==
    IF recs = <<>> THEN <<>>
    ELSE LET r   == Head(recs)
             key == SubSeq(prev_key, 1, r.shared) \o r.unshared
         IN  <<[key |-> key, val |-> r.val]>> \o decode_recs(Tail(recs), key)

decode_block(blk) == decode_recs(blk.recs, <<>>)

(***************************************************************************)
(* Writer engine (spec 4.4, 4.2, 3).  The sink is the file being written:  *)
(* data blocks are appended as they fill up, the index block and the       *)
(* footer only when the writer is finalized.                               *)
(***************************************************************************)
EmptyFile == [data |-> <<>>, index |-> None, footer |-> None]

mtbl_writer_init(block_size, restart_interval) ==
    [closed |-> FALSE,
     block_size |-> block_size,
     restart_interval |-> restart_interval,
     last_key |-> <<>>,
     data |-> block_builder_init,
     index |-> <<>>,
     offset |-> 0,
     m |-> [count_entries |-> 0, count_data_blocks |-> 0,
            bytes_keys |-> 0, bytes_values |-> 0, bytes_data_blocks |-> 0],
     sink |-> EmptyFile]

\* hand the current block to the codec, append it to the sink and record
\* the index entry (key of the last entry of the block, offset of the block)
mtbl_writer_flush(w) ==
    IF w.data.recs = <<>> THEN w
    ELSE LET blk == block_builder_finish(w.data)
         IN  [w EXCEPT !.sink.data = Append(@, blk),
                       !.index = Append(@, [key |-> w.last_key, offset |-> w.offset]),
                       !.offset = @ + block_bytes(blk),
                       !.m.count_data_blocks = @ + 1,
                       !.m.bytes_data_blocks = @ + block_bytes(blk),
                       !.data = block_builder_init]

mtbl_writer_add(w, key, val) ==
    IF w.closed
        THEN [res |-> "failure", w |-> w]
    ELSE IF w.m.count_entries > 0 /\ ~(bytes_compare(key, w.last_key) > 0)
        THEN [res |-> "failure", w |-> w]
    ELSE LET w1 == [w EXCEPT !.data = block_builder_add(@, key, val, w.restart_interval),
                             !.last_key = key,
                             !.m.count_entries = @ + 1,
                             !.m.bytes_keys = @ + Len(key),
                             !.m.bytes_values = @ + Len(val)]
             w2 == IF recs_bytes(w1.data.recs) >= w1.block_size
                   THEN mtbl_writer_flush(w1) ELSE w1
         IN  [res |-> "success", w |-> w2]

RECURSIVE index_builder(_, _, _)
index_builder(b, idx, restart_interval) ==
    IF idx = <<>> THEN b
    ELSE index_builder(block_builder_add(b, Head(idx).key, <<Head(idx).offset>>,
                                         restart_interval),
                       Tail(idx), restart_interval)

\* finalization: flush the partial last block, append the index block and the footer
mtbl_writer_finish(w) ==
    LET w1  == mtbl_writer_flush(w)
        ib  == block_builder_finish(index_builder(block_builder_init, w1.index,
                                                  w1.restart_interval))
        ftr == [magic |-> "MTBL",
                index_block_offset |-> w1.offset,
                data_block_size |-> w1.block_size,
                bytes_index_block |-> block_bytes(ib),
                m |-> w1.m]
    IN  [w1 EXCEPT !.closed = TRUE,
                   !.sink.index = Some(ib),
                   !.sink.footer = Some(ftr)]

\* the file a destroyed writer leaves behind
mtbl_writer_destroy(w) == IF w.closed THEN w.sink ELSE mtbl_writer_finish(w).sink

(***************************************************************************)
(* Reader engine (spec 4.3, 4.2).  Opening validates the footer and loads  *)
(* the index; blocks are located by byte offset and decoded on demand.     *)
(***************************************************************************)
RECURSIVE data_bytes(_)
data_bytes(blocks) ==
    IF blocks = <<>> THEN 0 ELSE block_bytes(Head(blocks)) + data_bytes(Tail(blocks))

mtbl_reader_init(file, verify_checksums) ==
    IF file.footer = None \/ file.index = None THEN None
    ELSE IF file.footer[1].magic # "MTBL" THEN None
    ELSE IF file.footer[1].index_block_offset # data_bytes(file.data) THEN None
    ELSE Some([type |-> "reader",
               file |-> file,
               index |-> decode_block(file.index[1]),
               m |-> file.footer[1],
               verify_checksums |-> verify_checksums])

\* the data block starting at a byte offset, None when no block starts there
RECURSIVE block_at(_, _, _)
block_at(blocks, offset, at) ==
    IF blocks = <<>> THEN None
    ELSE IF at = offset THEN Some(Head(blocks))
    ELSE IF at > offset THEN None
    ELSE block_at(Tail(blocks), offset, at + block_bytes(Head(blocks)))

\* the decoded entries of the bi-th block of the index, None on a decode failure
reader_load_block(r, bi) ==
    LET b == block_at(r.file.data, r.index[bi].val[1], 0)
    IN  IF b = None THEN None
        ELSE IF r.verify_checksums /\ b[1].crc # recs_checksum(b[1].recs) THEN None
        ELSE Some(decode_block(b[1]))

\* binary search: the first index position in lo..hi-1 whose key is >= key, else hi
RECURSIVE index_lower_bound(_, _, _, _)
index_lower_bound(idx, key, lo, hi) ==
    IF lo >= hi THEN lo
    ELSE LET mid == (lo + hi) \div 2
         IN  IF bytes_compare(idx[mid].key, key) < 0
             THEN index_lower_bound(idx, key, mid + 1, hi)
             ELSE index_lower_bound(idx, key, lo, mid)

\* linear scan: the first position of a decoded block whose key is >= key
RECURSIVE block_seek(_, _, _)
block_seek(ents, key, pos) ==
    IF pos > Len(ents) THEN pos
    ELSE IF bytes_compare(ents[pos].key, key) >= 0 THEN pos
    ELSE block_seek(ents, key, pos + 1)

InvalidIter == [type |-> "reader", kind |-> "iter", k0 |-> <<>>, k1 |-> <<>>,
                bi |-> 0, pos |-> 0, valid |-> FALSE]

\* an iterator of kind "iter", "get", "prefix" or "range", positioned at k0
reader_iter_init(r, kind, k0, k1) ==
    LET bi == IF kind = "iter" THEN 1
              ELSE index_lower_bound(r.index, k0, 1, Len(r.index) + 1)
    IN  IF bi > Len(r.index) THEN [InvalidIter EXCEPT !.kind = kind, !.k0 = k0, !.k1 = k1]
        ELSE LET ents == reader_load_block(r, bi)
             IN  [type |-> "reader", kind |-> kind, k0 |-> k0, k1 |-> k1, bi |-> bi,
                  pos |-> IF ents = None \/ kind = "iter" THEN 1
                          ELSE block_seek(ents[1], k0, 1),
                  valid |-> TRUE]

has_prefix(key, prefix) ==
    Len(key) >= Len(prefix) /\ SubSeq(key, 1, Len(prefix)) = prefix

in_window(it, key) ==
    CASE it.kind = "iter"   -> TRUE
      [] it.kind = "get"    -> bytes_compare(key, it.k0) = 0
      [] it.kind = "prefix" -> has_prefix(key, it.k0)
      [] it.kind = "range"  -> bytes_compare(key, it.k1) <= 0

Failure(it) == [res |-> "failure", it |-> [it EXCEPT !.valid = FALSE],
                key |-> <<>>, val |-> <<>>]

\* one step of a reader iterator: the entry under the cursor if it lies in
\* the iterator's window, then the cursor moves on, into the next block at
\* the end of a block
reader_iter_next(r, it) ==
    IF ~it.valid THEN Failure(it)
    ELSE LET ents == reader_load_block(r, it.bi)
         IN  IF ents = None \/ it.pos > Len(ents[1]) THEN Failure(it)
             ELSE LET e == ents[1][it.pos]
                  IN  IF ~in_window(it, e.key) THEN Failure(it)
                      ELSE [res |-> "success",
                            key |-> e.key,
                            val |-> e.val,
                            it  |-> IF it.pos < Len(ents[1])
                                        THEN [it EXCEPT !.pos = @ + 1]
                                    ELSE IF it.bi < Len(r.index)
                                        THEN [it EXCEPT !.bi = @ + 1, !.pos = 1]
                                    ELSE [it EXCEPT !.valid = FALSE]]

\* everything a reader iterator yields from its position on
RECURSIVE reader_collect(_, _)
reader_collect(r, it) ==
    LET n == reader_iter_next(r, it)
    IN  IF n.res = "failure" THEN <<>>
        ELSE <<[key |-> n.key, val |-> n.val]>> \o reader_collect(r, n.it)

(***************************************************************************)
(* merger.rs: merge functions.  A MergeFn is a closure (key, val0, val1)   *)
(* -> merged value; the engine calls it through _merge_cb_shim.            *)
(***************************************************************************)
MergeFns == {"choose_last", "choose_first", "collision", "diff"}

ApplyMergeFn(merge_fn, key, val0, val1) ==
    CASE merge_fn = "choose_last"  -> val1
      [] merge_fn = "choose_first" -> val0
      [] merge_fn = "collision"    -> <<3>>
      [] merge_fn = "diff"         -> <<(val0[1] + 5 - val1[1]) % 5>>

\* a shim that hands the two values to the closure in the wrong order
merge_cb_shim_Swapped(clos, key, val0, val1) == ApplyMergeFn(clos, key, val1, val0)

merge_cb_shim(clos, key, val0, val1) == ApplyMergeFn(clos, key, val0, val1)

(***************************************************************************)
(* Sorter engine (spec 4.5).  Entries are buffered in call order; when the *)
(* buffer exceeds the memory budget it is sorted by key, colliding keys    *)
(* are folded left to right in buffer order, and the run is spilled to a   *)
(* temporary file through an internal writer.  Finalization merges the     *)
(* spilled runs and the final buffer into the target writer.               *)
(***************************************************************************)
mtbl_sorter_init(max_memory, merge) ==
    [vec |-> <<>>, entry_bytes |-> 0, chunks |-> <<>>,
     max_memory |-> max_memory, merge |-> merge]

\* stable insertion: after every element whose key is not greater
RECURSIVE insert_sorted(_, _)
insert_sorted(sorted, e) ==
    IF sorted = <<>> THEN <<e>>
    ELSE IF bytes_compare(Head(sorted).key, e.key) <= 0
        THEN <<Head(sorted)>> \o insert_sorted(Tail(sorted), e)
    ELSE <<e>> \o sorted

RECURSIVE sort_entries(_)
sort_entries(vec) ==
    IF vec = <<>> THEN <<>>
    ELSE insert_sorted(sort_entries(SubSeq(vec, 1, Len(vec) - 1)), vec[Len(vec)])

\* fold colliding neighbours pairwise, left to right
RECURSIVE dedup_merge(_, _)
dedup_merge(ents, merge) ==
    IF Len(ents) <= 1 THEN ents
    ELSE IF bytes_compare(ents[1].key, ents[2].key) = 0
        THEN dedup_merge(<<[key |-> ents[1].key,
                            val |-> merge_cb_shim(merge, ents[1].key,
                                                  ents[1].val, ents[2].val)]>>
                         \o Tail(Tail(ents)), merge)
    ELSE <<ents[1]>> \o dedup_merge(Tail(ents), merge)

\* add entries to a writer until one is refused
RECURSIVE writer_add_entries(_, _)
writer_add_entries(w, ents) ==
    IF ents = <<>> THEN [res |-> "success", w |-> w]
    ELSE LET r == mtbl_writer_add(w, Head(ents).key, Head(ents).val)
         IN  IF r.res = "failure" THEN r
             ELSE writer_add_entries(r.w, Tail(ents))

sorter_write_chunk(s) ==
    LET run == dedup_merge(sort_entries(s.vec), s.merge)
        w   == writer_add_entries(mtbl_writer_init(DefaultBlockSize,
                                                   DefaultBlockRestartInterval), run).w
    IN  [s EXCEPT !.chunks = Append(@, mtbl_writer_destroy(w)),
                  !.vec = <<>>,
                  !.entry_bytes = 0]

mtbl_sorter_add(s, key, val) ==
    LET s1 == [s EXCEPT !.vec = Append(@, [key |-> key, val |-> val]),
                        !.entry_bytes = @ + Len(key) + Len(val)]
    IN  [res |-> "success",
         s   |-> IF s1.entry_bytes > s1.max_memory THEN sorter_write_chunk(s1) ELSE s1]

\* the entries of a spilled run, read back from its file
chunk_entries(file) ==
    LET r == mtbl_reader_init(file, FALSE)
    IN  IF r = None THEN <<>>
        ELSE reader_collect(r[1], reader_iter_init(r[1], "iter", <<>>, <<>>))

\* the smallest of a non-empty set of keys
min_key(keys) == CHOOSE k \in keys : \A k2 \in keys : bytes_compare(k, k2) <= 0

\* a fold that has not met a value yet
NoFold == [val |-> None, calls |-> <<>>]

\* fold, in run order, the head values of the runs whose head key is key; the
\* first value is taken as it is, every further one goes through the merge
\* function; calls lists the invocations of the merge function
RECURSIVE fold_heads(_, _, _, _, _)
fold_heads(runs, i, key, acc, merge) ==
    IF i > Len(runs) THEN acc
    ELSE IF runs[i] # <<>> /\ bytes_compare(runs[i][1].key, key) = 0
        THEN fold_heads(runs, i + 1, key,
                        IF acc.val = None
                        THEN [acc EXCEPT !.val = Some(runs[i][1].val)]
                        ELSE [val   |-> Some(merge_cb_shim(merge, key, acc.val[1],
                                                           runs[i][1].val)),
                              calls |-> Append(acc.calls,
                                               [key |-> key, val0 |-> acc.val[1],
                                                val1 |-> runs[i][1].val])],
                        merge)
    ELSE fold_heads(runs, i + 1, key, acc, merge)

\* k-way merge of sorted runs: the smallest head key, its folded value, and
\* every run that contributed moves on
RECURSIVE merge_runs(_, _)
merge_runs(runs, merge) ==
    LET live == {i \in 1..Len(runs) : runs[i] # <<>>}
    IN  IF live = {} THEN <<>>
        ELSE LET key  == min_key({runs[i][1].key : i \in live})
                 val  == fold_heads(runs, 1, key, NoFold, merge).val[1]
                 rest == [i \in 1..Len(runs) |->
                            IF runs[i] # <<>> /\ bytes_compare(runs[i][1].key, key) = 0
                            THEN Tail(runs[i]) ELSE runs[i]]
             IN  <<[key |-> key, val |-> val]>> \o merge_runs(rest, merge)

\* the entries a sorter hands to its writer: the merge of the spilled runs, in
\* spill order, and the sorted and folded final buffer
sorter_merged(s) ==
    LET runs == [i \in 1..Len(s.chunks) |-> chunk_entries(s.chunks[i])]
                \o <<dedup_merge(sort_entries(s.vec), s.merge)>>
    IN  merge_runs(runs, s.merge)

\* a finalization that forgets the spilled runs and writes the final buffer only
mtbl_sorter_write_BufferOnly(s, w) ==
    writer_add_entries(w, dedup_merge(sort_entries(s.vec), s.merge))

\* finalization: the merged entries are added to the target writer
mtbl_sorter_write(s, w) == writer_add_entries(w, sorter_merged(s))

\* the sorter after its finalization: a merge that completed has deleted the
\* spill files, one that the writer broke off has left them
sorter_after_write(s, w) ==
    IF mtbl_sorter_write(s, w).res = "success"
    THEN [s EXCEPT !.chunks = <<>>, !.vec = <<>>, !.entry_bytes = 0]
    ELSE s

\* what is left of a destroyed sorter: its buffer is freed and every spill
\* file it still has is deleted
mtbl_sorter_destroy(s) == [s EXCEPT !.chunks = <<>>, !.vec = <<>>, !.entry_bytes = 0]

(***************************************************************************)
(* The merger of the engine: a list of sources and a merge function.  Its  *)
(* iterators hold one iterator per source and step them as a k-way merge.  *)
(***************************************************************************)
mtbl_merger_init(merge) == [type |-> "merger", sources |-> <<>>, merge |-> merge]

mtbl_merger_add_source(m, source) == [m EXCEPT !.sources = Append(@, source)]

\* the source handle through which a merger is read
mtbl_merger_source(m) == m

\* the source interface, defined below: a source is a reader, a merger or a fileset
RECURSIVE source_iter_init(_, _, _, _)
RECURSIVE mtbl_iter_next(_, _)

\* one iterator of the asked kind per source, in source-insertion order
merger_iter_init(m, kind, k0, k1) ==
    [type |-> "merger", kind |-> kind, k0 |-> k0, k1 |-> k1,
     its |-> [i \in 1..Len(m.sources) |-> source_iter_init(m.sources[i], kind, k0, k1)]]

\* one step of the k-way merge: the smallest current key among the sources'
\* iterators, the values of the sources tied on it folded in source-insertion
\* order, and every iterator that contributed moves on
merger_iter_next(m, it) ==
    LET n     == Len(m.sources)
        heads == [i \in 1..n |-> mtbl_iter_next(m.sources[i], it.its[i])]
        live  == {i \in 1..n : heads[i].res = "success"}
    IN  IF live = {}
        THEN [res |-> "failure", it |-> it, key |-> <<>>, val |-> <<>>, calls |-> <<>>]
        ELSE LET key  == min_key({heads[i].key : i \in live})
                 runs == [i \in 1..n |->
                            IF i \in live
                            THEN <<[key |-> heads[i].key, val |-> heads[i].val]>>
                            ELSE <<>>]
                 fold == fold_heads(runs, 1, key, NoFold, m.merge)
             IN  [res |-> "success",
                  key |-> key,
                  val |-> fold.val[1],
                  calls |-> fold.calls,
                  it  |-> [it EXCEPT !.its =
                             [i \in 1..n |->
                                IF i \in live /\ bytes_compare(heads[i].key, key) = 0
                                THEN heads[i].it ELSE it.its[i]]]]

(***************************************************************************)
(* The fileset of the engine (spec 4.7, 5): the Readers opened on the      *)
(* files a listing names, presented as their Merger composition.  Reading  *)
(* reloads the listing when the reload interval has passed; an iterator    *)
(* keeps the composition it was created on.                                *)
(***************************************************************************)
DefaultReloadInterval == 60

\* a Reader per listed file, in listing order, merged with the merge function
fs_merger(dir, listing, merge) ==
    [mtbl_merger_init(merge) EXCEPT
        !.sources = [i \in 1..Len(listing) |-> mtbl_reader_init(dir[listing[i]], FALSE)[1]]]

mtbl_fileset_init(dir, listing, reload_interval, merge, time) ==
    [type |-> "fileset",
     files |-> listing,
     merger |-> fs_merger(dir, listing, merge),
     merge |-> merge,
     reload_interval |-> reload_interval,
     fs_last |-> time,
     loading |-> FALSE]

\* TRUE when a reload at this time is not ignored
fs_due(f, time) == time - f.fs_last >= f.reload_interval

\* the first half of a reload: the opened Readers are closed
fs_unload(f) == [f EXCEPT !.files = <<>>, !.merger = mtbl_merger_init(f.merge),
                          !.loading = TRUE]

\* the second half of a reload: a Reader is opened per file of the listing
fs_load(f, dir, listing, time) ==
    [f EXCEPT !.files = listing, !.merger = fs_merger(dir, listing, f.merge),
              !.fs_last = time, !.loading = FALSE]

\* re-read the listing, unless less than the reload interval has passed
mtbl_fileset_reload(f, dir, listing, time) ==
    IF fs_due(f, time) THEN fs_load(fs_unload(f), dir, listing, time) ELSE f

\* the source handle through which a fileset is read
mtbl_fileset_source(f) == f

\* the composition an iterator of a fileset is created on, and reads from
fileset_iter_init(f, kind, k0, k1) ==
    [type |-> "fileset", kind |-> kind, k0 |-> k0, k1 |-> k1,
     snap |-> f.merger, it |-> merger_iter_init(f.merger, kind, k0, k1)]

fileset_iter_next(f, it) ==
    LET r == merger_iter_next(it.snap, it.it)
    IN  [r EXCEPT !.it = [it EXCEPT !.it = r.it]]

(***************************************************************************)
(* The source interface of the engine (mtbl_source_*, mtbl_iter_next): a   *)
(* source is a reader, a merger or a fileset.                              *)
(***************************************************************************)
source_iter_init(src, kind, k0, k1) ==
    IF src.type = "merger" THEN merger_iter_init(src, kind, k0, k1)
    ELSE IF src.type = "fileset" THEN fileset_iter_init(src, kind, k0, k1)
    ELSE reader_iter_init(src, kind, k0, k1)

mtbl_source_iter(src) == source_iter_init(src, "iter", <<>>, <<>>)

mtbl_source_get(src, key) == source_iter_init(src, "get", key, key)

mtbl_source_get_prefix(src, prefix) == source_iter_init(src, "prefix", prefix, prefix)

mtbl_source_get_range(src, key0, key1) == source_iter_init(src, "range", key0, key1)

mtbl_iter_next(src, it) ==
    IF src.type = "merger" THEN merger_iter_next(src, it)
    ELSE IF src.type = "fileset" THEN fileset_iter_next(src, it)
    ELSE reader_iter_next(src, it)

(***************************************************************************)
(* writer.rs: Writer                                                       *)
(***************************************************************************)
WriterOptions_create_from_file(block_size, block_restart_interval) ==
    mtbl_writer_init(block_size, block_restart_interval)

Writer_add_AlwaysOk(w, key, value) ==
    [res |-> "Ok", w |-> mtbl_writer_add(w, key, value).w]

Writer_add_Swapped(w, key, value) ==
    LET r == mtbl_writer_add(w, key, value)
    IN  [res |-> IF r.res = "failure" THEN "Ok" ELSE "Err", w |-> r.w]

\* an add that stores the key in place of the value
Writer_add_KeyAsValue(w, key, value) ==
    LET r == mtbl_writer_add(w, key, key)
    IN  [res |-> IF r.res = "failure" THEN "Err" ELSE "Ok", w |-> r.w]

Writer_add(w, key, value) ==
    LET r == mtbl_writer_add(w, key, value)
    IN  [res |-> IF r.res = "failure" THEN "Err" ELSE "Ok", w |-> r.w]

\* a loop that goes on after a failed add and reports the failure at the end
RECURSIVE Writer_add_all_sorted_NoStop(_, _)
Writer_add_all_sorted_NoStop(w, iterable) ==
    IF iterable = <<>> THEN [res |-> "Ok", w |-> w, added |-> <<>>]
    ELSE LET r    == Writer_add(w, Head(iterable).key, Head(iterable).val)
             rest == Writer_add_all_sorted_NoStop(r.w, Tail(iterable))
         IN  [res   |-> IF r.res = "Err" THEN "Err" ELSE rest.res,
              w     |-> rest.w,
              added |-> IF r.res = "Err" THEN rest.added
                        ELSE <<Head(iterable)>> \o rest.added]

\* for (k, v) in iterable { try!(self.add(k, v)); } Ok(())
\* `added` is the list of elements whose add returned Ok (history only)
RECURSIVE Writer_add_all_sorted(_, _)
Writer_add_all_sorted(w, iterable) ==
    IF iterable = <<>> THEN [res |-> "Ok", w |-> w, added |-> <<>>]
    ELSE LET r == Writer_add(w, Head(iterable).key, Head(iterable).val)
         IN  IF r.res = "Err" THEN [res |-> "Err", w |-> r.w, added |-> <<>>]
             ELSE LET rest == Writer_add_all_sorted(r.w, Tail(iterable))
                  IN  [rest EXCEPT !.added = <<Head(iterable)>> \o @]

\* a drop that releases the writer without mtbl_writer_destroy
Writer_drop_NoDestroy(w) == w.sink

\* a drop that finalizes only a writer that holds an entry
Writer_drop_SkipEmpty(w) ==
    IF w.m.count_entries = 0 THEN w.sink ELSE mtbl_writer_destroy(w)

Writer_drop(w) == mtbl_writer_destroy(w)

(***************************************************************************)
(* reader.rs: Read, Iter, Reader                                           *)
(***************************************************************************)
\* the reader options of the engine as mtbl_reader_options_init makes them
mtbl_reader_options_init == [verify_checksums |-> FALSE]

\* ReaderOptions::new(): nothing is set
ReaderOptions_new == [verify_checksums |-> None]

\* an open that verifies checksums unless it is told not to
ReaderOptions_open_from_file_Verify(file, verify_checksums) ==
    mtbl_reader_init(file, verify_checksums # Some(FALSE))

\* an open that answers a refusal of the engine with a Reader on an empty table
ReaderOptions_open_from_file_NoNullCheck(file, verify_checksums) ==
    IF mtbl_reader_init(file, FALSE) # None THEN mtbl_reader_init(file, FALSE)
    ELSE Some([type |-> "reader", file |-> file, index |-> <<>>, m |-> file.footer,
               verify_checksums |-> FALSE])

\* verify_checksums is handed to the engine only when the options carry it
ReaderOptions_open_from_file(file, verify_checksums) ==
    LET mtbl_options == IF verify_checksums # None
                        THEN [mtbl_reader_options_init EXCEPT
                                 !.verify_checksums = verify_checksums[1]]
                        ELSE mtbl_reader_options_init
    IN  mtbl_reader_init(file, mtbl_options.verify_checksums)

Reader_open_from_file(file) ==
    ReaderOptions_open_from_file(file, ReaderOptions_new.verify_checksums)

\* metadata accessors: each reads one field of the metadata the engine loaded at open
Reader_index_block_offset(r) == r.m.index_block_offset

Reader_data_block_size(r) == r.m.data_block_size

Reader_count_entries(r) == r.m.m.count_entries

Reader_count_data_blocks(r) == r.m.m.count_data_blocks

Reader_bytes_data_blocks(r) == r.m.m.bytes_data_blocks

Reader_bytes_index_block(r) == r.m.bytes_index_block

\* a bytes_keys that reads the value total instead
Reader_bytes_keys_Values(r) == r.m.m.bytes_values

Reader_bytes_keys(r) == r.m.m.bytes_keys

Reader_bytes_values(r) == r.m.m.bytes_values

\* a get that reports every key as absent
Read_get_Absent(src, key) == None

Read_get_Key(src, key) ==
    LET r == mtbl_iter_next(src, mtbl_source_get(src, key))
    IN  IF r.res = "success" THEN Some(r.key) ELSE None

\* a get that asks the source for the prefix window of the key
Read_get_Prefix(src, key) ==
    LET r == mtbl_iter_next(src, mtbl_source_get_prefix(src, key))
    IN  IF r.res = "success" THEN Some(r.val) ELSE None

Read_get(src, key) ==
    LET r == mtbl_iter_next(src, mtbl_source_get(src, key))
    IN  IF r.res = "success" THEN Some(r.val) ELSE None

Iter_new(mtbl_iter) == mtbl_iter

Read_iter(src) == Iter_new(mtbl_source_iter(src))

Read_get_prefix_Exact(src, prefix) == Iter_new(mtbl_source_get(src, prefix))

Read_get_prefix(src, prefix) == Iter_new(mtbl_source_get_prefix(src, prefix))

Read_get_range_Swapped(src, key0, key1) == Iter_new(mtbl_source_get_range(src, key1, key0))

Read_get_range(src, key0, key1) == Iter_new(mtbl_source_get_range(src, key0, key1))

Iter_next_Swapped(src, it) ==
    LET r == mtbl_iter_next(src, it)
    IN  [item |-> IF r.res = "success" THEN Some(<<r.val, r.key>>) ELSE None, it |-> r.it]

\* a next that steps the engine iterator twice and reports the second step
Iter_next_Skip(src, it) ==
    LET r == mtbl_iter_next(src, mtbl_iter_next(src, it).it)
    IN  [item |-> IF r.res = "success" THEN Some(<<r.key, r.val>>) ELSE None, it |-> r.it]

Iter_next(src, it) ==
    LET r == mtbl_iter_next(src, it)
    IN  [item |-> IF r.res = "success" THEN Some(<<r.key, r.val>>) ELSE None, it |-> r.it]

\* for (k, v) in it { ... }: everything the iterator yields until None
RECURSIVE Iter_collect(_, _)
Iter_collect(src, it) ==
    LET r == Iter_next(src, it)
    IN  IF r.item = None THEN <<>> ELSE r.item \o Iter_collect(src, r.it)

(***************************************************************************)
(* sorter.rs: Sorter                                                       *)
(***************************************************************************)
\* a constructor that gives the Sorter a new, empty Writer in place of the given one
SorterOptions_create_from_writer_Fresh(max_memory, w, merge_fn) ==
    [mtbl_sorter |-> mtbl_sorter_init(IF max_memory = None THEN DefaultMaxMemory
                                      ELSE max_memory[1], merge_fn),
     merge_fn |-> merge_fn,
     writer |-> WriterOptions_create_from_file(w.block_size, w.restart_interval)]

SorterOptions_create_from_writer(max_memory, w, merge_fn) ==
    [mtbl_sorter |-> mtbl_sorter_init(IF max_memory = None THEN DefaultMaxMemory
                                      ELSE max_memory[1], merge_fn),
     merge_fn |-> merge_fn,
     writer |-> w]

Sorter_add(s, key, value) ==
    LET r == mtbl_sorter_add(s.mtbl_sorter, key, value)
    IN  [res |-> IF r.res = "failure" THEN "Err" ELSE "Ok",
         s   |-> [s EXCEPT !.mtbl_sorter = r.s]]

\* for (k, v) in iterable { try!(self.add(k, v)); } Ok(())
RECURSIVE Sorter_add_all(_, _)
Sorter_add_all(s, iterable) ==
    IF iterable = <<>> THEN [res |-> "Ok", s |-> s]
    ELSE LET r == Sorter_add(s, Head(iterable).key, Head(iterable).val)
         IN  IF r.res = "Err" THEN r ELSE Sorter_add_all(r.s, Tail(iterable))

\* a drop that has the sorter write into the Writer a second time
Sorter_drop_write_Twice(s) ==
    mtbl_sorter_write(s.mtbl_sorter, mtbl_sorter_write(s.mtbl_sorter, s.writer).w)

\* mtbl_sorter_write(self.mtbl_sorter, self.writer.as_raw_ptr())
Sorter_drop_write(s) == mtbl_sorter_write(s.mtbl_sorter, s.writer)

\* a drop that destroys the sorter without writing its entries out
Sorter_drop_NoWrite(s) == Writer_drop(s.writer)

\* a drop that finalizes the Writer before the sorter writes into it
Sorter_drop_WriterFirst(s) ==
    mtbl_sorter_write(s.mtbl_sorter, mtbl_writer_finish(s.writer)).w.sink

\* mtbl_sorter_write into the Writer (its result is not looked at), then
\* mtbl_sorter_destroy, then the fields are dropped: the Writer is finalized
Sorter_drop(s) == Writer_drop(Sorter_drop_write(s).w)

\* a drop that writes the entries out and leaves the sorter undestroyed
Sorter_drop_tmp_NoDestroy(s) == sorter_after_write(s.mtbl_sorter, s.writer).chunks

\* the spill files left when the drop is over: mtbl_sorter_write, then
\* mtbl_sorter_destroy
Sorter_drop_tmp(s) ==
    mtbl_sorter_destroy(sorter_after_write(s.mtbl_sorter, s.writer)).chunks

\* what the caller of drop gets to see: drop returns (), and the result of
\* mtbl_sorter_write is not looked at ("TODO check retval?")
Sorter_drop_outcome(s) ==
    LET res == mtbl_sorter_write(s.mtbl_sorter, s.writer).res
    IN  "Ok"


(***************************************************************************)
(* fileset.rs: FilesetOptions, Fileset.  The directory of the setfile and  *)
(* the listing in it are the file system the engine reads; the time is the *)
(* clock it reads.                                                         *)
(***************************************************************************)
mtbl_fileset_options_init == [reload_interval |-> DefaultReloadInterval]

\* the reload interval is set only when the options carry one
FilesetOptions_open_from_path(reload_interval_seconds, dir, listing, merge_fn, time) ==
    LET opts == IF reload_interval_seconds # None
                THEN [mtbl_fileset_options_init EXCEPT
                         !.reload_interval = reload_interval_seconds[1]]
                ELSE mtbl_fileset_options_init
    IN  [options |-> [reload_interval_seconds |-> reload_interval_seconds],
         _merge_fn |-> merge_fn,
         mtbl_fileset |-> mtbl_fileset_init(dir, listing, opts.reload_interval,
                                            merge_fn, time)]

Fileset_open_from_path(dir, listing, merge_fn, time) ==
    FilesetOptions_open_from_path(None, dir, listing, merge_fn, time)

\* a reload that never asks the engine
Fileset_reload_Noop(fs, dir, listing, time) == fs

Fileset_reload(fs, dir, listing, time) ==
    [fs EXCEPT !.mtbl_fileset = mtbl_fileset_reload(@, dir, listing, time)]

\* impl Read for Fileset: the fileset's source handle
Fileset_raw_mtbl_source(fs) == mtbl_fileset_source(fs.mtbl_fileset)

(***************************************************************************)
(* merger.rs: Merger                                                       *)
(***************************************************************************)
\* impl Read for Merger: the merger's source handle
Merger_raw_mtbl_source(m) == mtbl_merger_source(m.mtbl_merger)

\* source.raw_mtbl_source() of a source of any kind: a Fileset, a Merger or a Reader
Read_raw_mtbl_source(source) ==
    IF "mtbl_fileset" \in DOMAIN source THEN Fileset_raw_mtbl_source(source)
    ELSE IF "mtbl_merger" \in DOMAIN source THEN Merger_raw_mtbl_source(source)
    ELSE source

\* an add_source that registers the source with the engine twice
Merger_add_source_Twice(m, source) ==
    [m EXCEPT !.mtbl_merger = mtbl_merger_add_source(
                                  mtbl_merger_add_source(@, Read_raw_mtbl_source(source)),
                                  Read_raw_mtbl_source(source)),
              !._sources = Append(@, source)]

\* mtbl_merger_add_source with the source's raw handle, then _sources.push
Merger_add_source(m, source) ==
    [m EXCEPT !.mtbl_merger = mtbl_merger_add_source(@, Read_raw_mtbl_source(source)),
              !._sources = Append(@, source)]

RECURSIVE Merger_add_sources(_, _)
Merger_add_sources(m, sources) ==
    IF sources = <<>> THEN m
    ELSE Merger_add_sources(Merger_add_source(m, Head(sources)), Tail(sources))

\* a constructor that hands the sources over last to first
Merger_new_Reversed(sources, merge_fn) ==
    Merger_add_sources([_sources |-> <<>>,
                        merge_fn |-> merge_fn,
                        mtbl_merger |-> mtbl_merger_init(merge_fn)],
                       [i \in 1..Len(sources) |-> sources[Len(sources) + 1 - i]])

\* the merger is created empty with the merge function, then
\* for source in sources { merger.add_source(source) }
Merger_new(sources, merge_fn) ==
    Merger_add_sources([_sources |-> <<>>,
                        merge_fn |-> merge_fn,
                        mtbl_merger |-> mtbl_merger_init(merge_fn)],
                       sources)

\* the engine call that closes a source of any kind when its owner lets it go
Read_drop(source) ==
    IF "mtbl_fileset" \in DOMAIN source THEN "mtbl_fileset_destroy"
    ELSE IF "mtbl_merger" \in DOMAIN source THEN "mtbl_merger_destroy"
    ELSE "mtbl_reader_destroy"

\* Drop for Merger, as the engine calls it makes: mtbl_merger_destroy on the
\* merger itself (0), then the fields go, and with _sources each owned source
Merger_drop(m) ==
    <<[call |-> "mtbl_merger_destroy", on |-> 0]>>
        \o [i \in 1..Len(m._sources) |-> [call |-> Read_drop(m._sources[i]), on |-> i]]

(***************************************************************************)
(* Writer and Reader: one Writer fills a file and is dropped, a Reader is  *)
(* opened on the file, and gets and iterators run against it.              *)
(***************************************************************************)
SeqsOf(S, lo, hi) == UNION {[1..n -> S] : n \in lo..hi}

InitW ==
    /\ writer = Some(WriterOptions_create_from_file(BlockSize, BlockRestartInterval))
    /\ disk = EmptyFile
    /\ reader = None
    /\ iter = None
    /\ out = <<>>
    /\ ended = FALSE
    /\ lastGet = None
    /\ lastOp = None
    /\ prevWriter = None
    /\ accepted = <<>>
    /\ prevAccepted = <<>>
    /\ rejected = {}
    /\ recovered = FALSE
    /\ ncalls = 0
    /\ query = None
    /\ sorter = None
    /\ scalls = <<>>
    /\ mergeFn = "choose_last"
    /\ maxMemory = None
    /\ merger = None
    /\ msources = <<>>
    /\ mergeCalls = <<>>
    /\ threads = IdleThreads
    /\ fileset = None
    /\ setfile = <<>>
    /\ now = 0

\* writer.add(k, v)
Add(k, v) ==
    /\ writer # None
    /\ ncalls < MaxAdds
    /\ LET r == Writer_add(writer[1], k, v)
       IN  /\ writer' = Some(r.w)
           /\ disk' = r.w.sink
           /\ lastOp' = Some([kind |-> "add", items |-> <<[key |-> k, val |-> v]>>,
                              res |-> r.res])
           /\ accepted' = IF r.res = "Ok" THEN Append(accepted, [key |-> k, val |-> v])
                          ELSE accepted
           /\ rejected' = IF r.res = "Ok" THEN rejected ELSE rejected \cup {k}
           /\ recovered' = (recovered \/ (r.res = "Ok" /\ rejected # {}))
    /\ prevWriter' = writer
    /\ prevAccepted' = accepted
    /\ ncalls' = ncalls + 1
    /\ UNCHANGED <<reader, iter, out, ended, lastGet, query, svars, mvars, pvars, fvars>>

\* writer.add_all_sorted(items)
AddAllSorted(items) ==
    /\ writer # None
    /\ ncalls + Len(items) <= MaxAdds
    /\ LET r == Writer_add_all_sorted(writer[1], items)
       IN  /\ writer' = Some(r.w)
           /\ disk' = r.w.sink
           /\ lastOp' = Some([kind |-> "add_all_sorted", items |-> items, res |-> r.res])
           /\ accepted' = accepted \o r.added
           /\ rejected' = IF r.res = "Ok" THEN rejected
                          ELSE rejected \cup {items[Len(r.added) + 1].key}
           /\ recovered' = (recovered \/ (r.added # <<>> /\ rejected # {}))
    /\ prevWriter' = writer
    /\ prevAccepted' = accepted
    /\ ncalls' = ncalls + Len(items)
    /\ UNCHANGED <<reader, iter, out, ended, lastGet, query, svars, mvars, pvars, fvars>>

\* the Writer goes out of scope
DropWriter ==
    /\ writer # None
    /\ disk' = Writer_drop(writer[1])
    /\ writer' = None
    /\ UNCHANGED <<reader, iter, out, ended, lastGet, lastOp, prevWriter, accepted,
                   prevAccepted, rejected, recovered, ncalls, query, svars, mvars, pvars, fvars>>

\* Reader::open_from_file(&file).unwrap() on the finished file
OpenReader ==
    /\ writer = None
    /\ reader = None
    /\ Reader_open_from_file(disk) # None
    /\ reader' = Reader_open_from_file(disk)
    /\ lastOp' = None
    /\ prevWriter' = None
    /\ prevAccepted' = <<>>
    /\ UNCHANGED <<writer, disk, iter, out, ended, lastGet, accepted, rejected,
                   recovered, ncalls, query, svars, mvars, pvars, fvars>>

\* reader.get(k)
Get(k) ==
    /\ reader # None
    /\ iter = None
    /\ lastGet' = Some([key |-> k, res |-> Read_get(reader[1], k)])
    /\ UNCHANGED <<writer, disk, reader, iter, out, ended, lastOp, prevWriter, accepted,
                   prevAccepted, rejected, recovered, ncalls, query, svars, mvars, pvars, fvars>>

StartIter(q, it) ==
    /\ reader # None
    /\ iter = None
    /\ iter' = Some(it)
    /\ query' = Some(q)
    /\ out' = <<>>
    /\ ended' = FALSE
    /\ lastGet' = None
    /\ UNCHANGED <<writer, disk, reader, lastOp, prevWriter, accepted, prevAccepted,
                   rejected, recovered, ncalls, svars, mvars, pvars, fvars>>

\* reader.iter()
NewIter ==
    /\ reader # None
    /\ StartIter([kind |-> "iter", k0 |-> <<>>, k1 |-> <<>>], Read_iter(reader[1]))

\* reader.get_prefix(p)
GetPrefix(p) ==
    /\ reader # None
    /\ StartIter([kind |-> "prefix", k0 |-> p, k1 |-> <<>>], Read_get_prefix(reader[1], p))

\* reader.get_range(k0, k1)
GetRange(k0, k1) ==
    /\ reader # None
    /\ StartIter([kind |-> "range", k0 |-> k0, k1 |-> k1],
                 Read_get_range(reader[1], k0, k1))

\* it.next()
IterNext ==
    /\ iter # None
    /\ ~ended
    /\ LET r == Iter_next(reader[1], iter[1])
       IN  /\ iter' = Some(r.it)
           /\ out' = out \o r.item
           /\ ended' = (r.item = None)
    /\ UNCHANGED <<writer, disk, reader, lastGet, lastOp, prevWriter, accepted,
                   prevAccepted, rejected, recovered, ncalls, query, svars, mvars, pvars, fvars>>

\* the exhausted iterator goes out of scope
DropIter ==
    /\ iter # None
    /\ ended
    /\ iter' = None
    /\ query' = None
    /\ out' = <<>>
    /\ ended' = FALSE
    /\ UNCHANGED <<writer, disk, reader, lastGet, lastOp, prevWriter, accepted,
                   prevAccepted, rejected, recovered, ncalls, svars, mvars, pvars, fvars>>

NextW ==
    \/ \E k \in Keys, v \in Values : Add(k, v)
    \/ \E items \in SeqsOf(Entries, 2, MaxAdds - ncalls) : AddAllSorted(items)
    \/ DropWriter
    \/ OpenReader
    \/ \E k \in Keys : Get(k)
    \/ NewIter
    \/ IterNext
    \/ DropIter

Spec == InitW /\ [][NextW]_vars

(***************************************************************************)
(* Window queries: a file written from any strictly increasing sequence of *)
(* entries and finalized, a Reader open on it, and prefix and range        *)
(* iterators run against it.                                               *)
(***************************************************************************)
StrictlyIncreasing(items) ==
    \A i \in 1..(Len(items) - 1) : bytes_compare(items[i].key, items[i + 1].key) < 0

InitQ ==
    \E items \in SeqsOf(Entries, 0, MaxAdds) :
        /\ StrictlyIncreasing(items)
        /\ LET w == Writer_add_all_sorted(
                        WriterOptions_create_from_file(BlockSize, BlockRestartInterval),
                        items).w
           IN  /\ disk = Writer_drop(w)
               /\ reader = Reader_open_from_file(Writer_drop(w))
        /\ writer = None
        /\ iter = None
        /\ out = <<>>
        /\ ended = FALSE
        /\ lastGet = None
        /\ lastOp = None
        /\ prevWriter = None
        /\ accepted = items
        /\ prevAccepted = <<>>
        /\ rejected = {}
        /\ recovered = FALSE
        /\ ncalls = Len(items)
        /\ query = None
        /\ sorter = None
        /\ scalls = <<>>
        /\ mergeFn = "choose_last"
        /\ maxMemory = None
        /\ merger = None
        /\ msources = <<>>
        /\ mergeCalls = <<>>
        /\ threads = IdleThreads
        /\ fileset = None
        /\ setfile = <<>>
        /\ now = 0

NextQ ==
    \/ \E p \in Keys : GetPrefix(p)
    \/ \E k0 \in Keys, k1 \in Keys : GetRange(k0, k1)
    \/ IterNext
    \/ DropIter

SpecQ == InitQ /\ [][NextQ]_vars

(***************************************************************************)
(* Reader on a damaged file: one data block of a finished file may have a  *)
(* wrong checksum, and the Reader is opened with or without verification.  *)
(***************************************************************************)
\* the file with the checksum of its b-th data block damaged
CorruptBlock(file, b) == [file EXCEPT !.data[b].crc = @ + 1]

InitC ==
    \E items \in SeqsOf(Entries, 1, MaxAdds),
       verify_checksums \in {None, Some(FALSE), Some(TRUE)} :
        /\ StrictlyIncreasing(items)
        /\ LET file == Writer_drop(Writer_add_all_sorted(
                           WriterOptions_create_from_file(BlockSize, BlockRestartInterval),
                           items).w)
           IN  \E b \in 0..Len(file.data) :
                  /\ disk = IF b = 0 THEN file ELSE CorruptBlock(file, b)
                  /\ reader = ReaderOptions_open_from_file(
                                  IF b = 0 THEN file ELSE CorruptBlock(file, b),
                                  verify_checksums)
        /\ writer = None
        /\ iter = None
        /\ out = <<>>
        /\ ended = FALSE
        /\ lastGet = None
        /\ lastOp = Some([kind |-> "open", verify_checksums |-> verify_checksums])
        /\ prevWriter = None
        /\ accepted = items
        /\ prevAccepted = <<>>
        /\ rejected = {}
        /\ recovered = FALSE
        /\ ncalls = Len(items)
        /\ query = None
        /\ sorter = None
        /\ scalls = <<>>
        /\ mergeFn = "choose_last"
        /\ maxMemory = None
        /\ merger = None
        /\ msources = <<>>
        /\ mergeCalls = <<>>
        /\ threads = IdleThreads
        /\ fileset = None
        /\ setfile = <<>>
        /\ now = 0

NextC ==
    \/ \E k \in Keys : Get(k)
    \/ NewIter
    \/ IterNext
    \/ DropIter

SpecC == InitC /\ [][NextC]_vars

(***************************************************************************)
(* Opening files that are not valid: a Writer wrote the file and was, or   *)
(* was not yet, dropped; the file was then damaged in one place, or left   *)
(* alone; a Reader is opened on it and, when that succeeds, read.          *)
(***************************************************************************)
Damages == {"none", "magic", "footer", "index", "data"}

DamageFile(file, damage) ==
    CASE damage = "none"   -> file
      [] damage = "magic"  -> IF file.footer = None THEN file
                              ELSE [file EXCEPT !.footer[1].magic = "LBTM"]
      [] damage = "footer" -> [file EXCEPT !.footer = None]
      [] damage = "index"  -> [file EXCEPT !.index = None]
      [] damage = "data"   -> IF file.data = <<>> THEN file
                              ELSE [file EXCEPT !.data = SubSeq(@, 1, Len(@) - 1)]

IsFile == lastOp # None /\ lastOp[1].kind = "file"

InitO ==
    \E items \in SeqsOf(Entries, 0, MaxAdds), finalized \in BOOLEAN, damage \in Damages :
        /\ StrictlyIncreasing(items)
        /\ LET w    == Writer_add_all_sorted(
                           WriterOptions_create_from_file(BlockSize, BlockRestartInterval),
                           items).w
               file == IF finalized THEN Writer_drop(w) ELSE w.sink
           IN  /\ damage # "none" => DamageFile(file, damage) # file
               /\ disk = DamageFile(file, damage)
        /\ lastOp = Some([kind |-> "file", finalized |-> finalized, damage |-> damage])
        /\ reader = None
        /\ writer = None
        /\ iter = None
        /\ out = <<>>
        /\ ended = FALSE
        /\ lastGet = None
        /\ prevWriter = None
        /\ accepted = items
        /\ prevAccepted = <<>>
        /\ rejected = {}
        /\ recovered = FALSE
        /\ ncalls = Len(items)
        /\ query = None
        /\ sorter = None
        /\ scalls = <<>>
        /\ mergeFn = "choose_last"
        /\ maxMemory = None
        /\ merger = None
        /\ msources = <<>>
        /\ mergeCalls = <<>>
        /\ threads = IdleThreads
        /\ fileset = None
        /\ setfile = <<>>
        /\ now = 0

\* Reader::open_from_file(&file): Ok(reader) or Err
TryOpen ==
    /\ IsFile
    /\ reader' = Reader_open_from_file(disk)
    /\ lastOp' = Some([kind |-> "open",
                       finalized |-> lastOp[1].finalized,
                       damage |-> lastOp[1].damage,
                       res |-> IF Reader_open_from_file(disk) # None THEN "Ok" ELSE "Err"])
    /\ UNCHANGED <<writer, disk, iter, out, ended, lastGet, prevWriter, accepted,
                   prevAccepted, rejected, recovered, ncalls, query, svars, mvars, pvars,
                   fvars>>

NextO ==
    \/ TryOpen
    \/ \E k \in Keys : Get(k)
    \/ NewIter
    \/ IterNext
    \/ DropIter

SpecO == InitO /\ [][NextO]_vars

(***************************************************************************)
(* Sorter: a Sorter over a fresh Writer takes entries in any order and is  *)
(* dropped; the output file is then complete.                              *)
(***************************************************************************)
SorterKeys == {<<1>>, <<1, 2>>}
SorterEntries == [key : SorterKeys, val : Values]
MaxMemoryOptions == {None, Some(1), Some(4)}

InitS ==
    \E mm \in MaxMemoryOptions, fn \in MergeFns :
        /\ sorter = Some(SorterOptions_create_from_writer(
                            mm,
                            WriterOptions_create_from_file(BlockSize, BlockRestartInterval),
                            fn))
        /\ mergeFn = fn
        /\ maxMemory = mm
        /\ scalls = <<>>
        /\ writer = None
        /\ disk = EmptyFile
        /\ reader = None
        /\ iter = None
        /\ out = <<>>
        /\ ended = FALSE
        /\ lastGet = None
        /\ lastOp = None
        /\ prevWriter = None
        /\ accepted = <<>>
        /\ prevAccepted = <<>>
        /\ rejected = {}
        /\ recovered = FALSE
        /\ ncalls = 0
        /\ query = None
        /\ merger = None
        /\ msources = <<>>
        /\ mergeCalls = <<>>
        /\ threads = IdleThreads
        /\ fileset = None
        /\ setfile = <<>>
        /\ now = 0

\* sorter.add(k, v).unwrap()
SorterAdd(k, v) ==
    /\ sorter # None
    /\ Len(scalls) < MaxSorterAdds
    /\ LET r == Sorter_add(sorter[1], k, v)
       IN  /\ r.res = "Ok"
           /\ sorter' = Some(r.s)
    /\ scalls' = Append(scalls, [key |-> k, val |-> v])
    /\ UNCHANGED <<wvars, mergeFn, maxMemory, mvars, pvars, fvars>>

\* sorter.add_all(items).unwrap()
SorterAddAll(items) ==
    /\ sorter # None
    /\ Len(scalls) + Len(items) <= MaxSorterAdds
    /\ LET r == Sorter_add_all(sorter[1], items)
       IN  /\ r.res = "Ok"
           /\ sorter' = Some(r.s)
    /\ scalls' = scalls \o items
    /\ UNCHANGED <<wvars, mergeFn, maxMemory, mvars, pvars, fvars>>

\* drop(sorter)
SorterDrop ==
    /\ sorter # None
    /\ disk' = Sorter_drop(sorter[1])
    /\ lastOp' = Some([kind |-> "drop", items |-> <<>>,
                       res |-> Sorter_drop_outcome(sorter[1]),
                       engine |-> Sorter_drop_write(sorter[1]).res,
                       passed |-> sorter_merged(sorter[1].mtbl_sorter),
                       spilled |-> Len(sorter[1].mtbl_sorter.chunks),
                       tmp |-> Sorter_drop_tmp(sorter[1])])
    /\ sorter' = None
    /\ UNCHANGED <<writer, reader, iter, out, ended, lastGet, prevWriter,
                   accepted, prevAccepted, rejected, recovered, ncalls, query,
                   scalls, mergeFn, maxMemory, mvars, pvars, fvars>>

NextS ==
    \/ \E k \in SorterKeys, v \in Values : SorterAdd(k, v)
    \/ \E items \in SeqsOf(SorterEntries, 2, MaxSorterAdds - Len(scalls)) :
          SorterAddAll(items)
    \/ SorterDrop

SpecS == InitS /\ [][NextS]_vars

(***************************************************************************)
(* Sorter on a used Writer: the Writer handed to the Sorter may already    *)
(* have accepted an entry.                                                 *)
(***************************************************************************)
InitF ==
    \E mm \in MaxMemoryOptions, pre \in SeqsOf(SorterEntries, 0, 1) :
        LET w == Writer_add_all_sorted(
                     WriterOptions_create_from_file(BlockSize, BlockRestartInterval),
                     pre).w
        IN  /\ sorter = Some(SorterOptions_create_from_writer(mm, w, "choose_last"))
            /\ mergeFn = "choose_last"
            /\ maxMemory = mm
            /\ scalls = <<>>
            /\ writer = None
            /\ disk = w.sink
            /\ reader = None
            /\ iter = None
            /\ out = <<>>
            /\ ended = FALSE
            /\ lastGet = None
            /\ lastOp = None
            /\ prevWriter = None
            /\ accepted = pre
            /\ prevAccepted = <<>>
            /\ rejected = {}
            /\ recovered = FALSE
            /\ ncalls = Len(pre)
            /\ query = None
            /\ merger = None
            /\ msources = <<>>
            /\ mergeCalls = <<>>
            /\ threads = IdleThreads
            /\ fileset = None
            /\ setfile = <<>>
            /\ now = 0

SpecF == InitF /\ [][NextS]_vars

(***************************************************************************)
(* Merger: Readers on sorted files are merged by a Merger, which is read   *)
(* with get and iterated.                                                  *)
(***************************************************************************)
MaxSources == 3
MergerKeys == {<<1>>, <<2>>}

\* a set of keys as the strictly increasing list a source file is written from
RECURSIVE SortedKeys(_)
SortedKeys(keys) ==
    IF keys = {} THEN <<>>
    ELSE <<min_key(keys)>> \o SortedKeys(keys \ {min_key(keys)})

\* the entries of the i-th source file: the chosen keys, ascending, each with
\* a value that tells the sources apart
SourceEntries(keys, i) ==
    LET ks == SortedKeys(keys)
    IN  [j \in 1..Len(ks) |-> [key |-> ks[j], val |-> <<i>>]]

\* a Writer fills the file and is dropped, then a Reader is opened on it
SourceReader(entries) ==
    Reader_open_from_file(Writer_drop(Writer_add_all_sorted(
        WriterOptions_create_from_file(BlockSize, BlockRestartInterval), entries).w))[1]

\* Merger::new(readers, merge_fn)
InitM ==
    \E fn \in MergeFns, ksets \in SeqsOf(SUBSET MergerKeys, 0, MaxSources) :
        LET ents == [i \in 1..Len(ksets) |-> SourceEntries(ksets[i], i)]
        IN  /\ merger = Some(Merger_new([i \in 1..Len(ents) |-> SourceReader(ents[i])], fn))
            /\ msources = ents
            /\ mergeCalls = <<>>
            /\ threads = IdleThreads
            /\ fileset = None
            /\ setfile = <<>>
            /\ now = 0
            /\ mergeFn = fn
            /\ writer = None
            /\ disk = EmptyFile
            /\ reader = None
            /\ iter = None
            /\ out = <<>>
            /\ ended = FALSE
            /\ lastGet = None
            /\ lastOp = None
            /\ prevWriter = None
            /\ accepted = <<>>
            /\ prevAccepted = <<>>
            /\ rejected = {}
            /\ recovered = FALSE
            /\ ncalls = 0
            /\ query = None
            /\ sorter = None
            /\ scalls = <<>>
            /\ maxMemory = None

\* merger.add_source(reader)
MergerAddSource(keys) ==
    /\ merger # None
    /\ iter = None
    /\ Len(msources) < MaxSources
    /\ LET ents == SourceEntries(keys, Len(msources) + 1)
       IN  /\ merger' = Some(Merger_add_source(merger[1], SourceReader(ents)))
           /\ msources' = Append(msources, ents)
    /\ lastGet' = None
    /\ mergeCalls' = <<>>
    /\ UNCHANGED <<writer, disk, reader, iter, out, ended, lastOp, prevWriter, accepted,
                   prevAccepted, rejected, recovered, ncalls, query, svars, pvars, fvars>>

\* merger.get(k)
MergerGet(k) ==
    /\ merger # None
    /\ iter = None
    /\ LET src == Merger_raw_mtbl_source(merger[1])
       IN  /\ lastGet' = Some([key |-> k, res |-> Read_get(src, k)])
           /\ mergeCalls' = mtbl_iter_next(src, mtbl_source_get(src, k)).calls
    /\ UNCHANGED <<writer, disk, reader, iter, out, ended, lastOp, prevWriter, accepted,
                   prevAccepted, rejected, recovered, ncalls, query, svars, merger,
                   msources, pvars, fvars>>

\* merger.iter()
MergerIter ==
    /\ merger # None
    /\ iter = None
    /\ iter' = Some(Read_iter(Merger_raw_mtbl_source(merger[1])))
    /\ query' = Some([kind |-> "iter", k0 |-> <<>>, k1 |-> <<>>])
    /\ out' = <<>>
    /\ ended' = FALSE
    /\ lastGet' = None
    /\ mergeCalls' = <<>>
    /\ UNCHANGED <<writer, disk, reader, lastOp, prevWriter, accepted, prevAccepted,
                   rejected, recovered, ncalls, svars, merger, msources, pvars, fvars>>

\* it.next() on an iterator of the merger
MergerIterNext ==
    /\ merger # None
    /\ iter # None
    /\ ~ended
    /\ LET src == Merger_raw_mtbl_source(merger[1])
           r   == Iter_next(src, iter[1])
       IN  /\ iter' = Some(r.it)
           /\ out' = out \o r.item
           /\ ended' = (r.item = None)
           /\ mergeCalls' = mtbl_iter_next(src, iter[1]).calls
    /\ UNCHANGED <<writer, disk, reader, lastGet, lastOp, prevWriter, accepted,
                   prevAccepted, rejected, recovered, ncalls, query, svars, merger,
                   msources, pvars, fvars>>

NextM ==
    \/ \E keys \in SUBSET MergerKeys : MergerAddSource(keys)
    \/ \E k \in Keys : MergerGet(k)
    \/ MergerIter
    \/ MergerIterNext
    \/ DropIter

SpecM == InitM /\ [][NextM]_vars

(***************************************************************************)
(* Shared Reader: several threads hold one Reader (an Arc<Reader>) and call *)
(* get and the iterator methods on it in any interleaving; every Iter is   *)
(* owned by the thread that created it.                                    *)
(***************************************************************************)
MaxIters == 2
SharedKeys == {<<1>>, <<1, 2>>}

\* the entries of the shared file: the chosen keys, ascending
SharedEntries(keys) ==
    LET ks == SortedKeys(keys)
    IN  [j \in 1..Len(ks) |-> [key |-> ks[j], val |-> <<Len(ks[j])>>]]

InitP ==
    \E keys \in SUBSET SharedKeys :
        /\ LET file == Writer_drop(Writer_add_all_sorted(
                           WriterOptions_create_from_file(BlockSize, BlockRestartInterval),
                           SharedEntries(keys)).w)
           IN  /\ disk = file
               /\ reader = Reader_open_from_file(file)
        /\ accepted = SharedEntries(keys)
        /\ ncalls = Len(SharedEntries(keys))
        /\ writer = None
        /\ iter = None
        /\ out = <<>>
        /\ ended = FALSE
        /\ lastGet = None
        /\ lastOp = None
        /\ prevWriter = None
        /\ prevAccepted = <<>>
        /\ rejected = {}
        /\ recovered = FALSE
        /\ query = None
        /\ sorter = None
        /\ scalls = <<>>
        /\ mergeFn = "choose_last"
        /\ maxMemory = None
        /\ merger = None
        /\ msources = <<>>
        /\ mergeCalls = <<>>
        /\ threads = IdleThreads
        /\ fileset = None
        /\ setfile = <<>>
        /\ now = 0

\* thread t: reader.get(k)
ThreadGet(t, k) ==
    /\ reader # None
    /\ lastGet' = Some([key |-> k, res |-> Read_get(reader[1], k)])
    /\ UNCHANGED <<writer, disk, reader, iter, out, ended, lastOp, prevWriter, accepted,
                   prevAccepted, rejected, recovered, ncalls, query, svars, mvars, pvars, fvars>>

ThreadStartIter(t, q, it) ==
    /\ reader # None
    /\ threads[t].iter = None
    /\ threads[t].count < MaxIters
    /\ threads' = [threads EXCEPT ![t] = [iter |-> Some(it), out |-> <<>>, ended |-> FALSE,
                                          query |-> Some(q), count |-> @.count + 1,
                                          pc |-> "idle"]]
    /\ UNCHANGED <<wvars, svars, mvars, fvars>>

\* thread t: reader.iter()
ThreadIter(t) ==
    /\ reader # None
    /\ ThreadStartIter(t, [kind |-> "iter", k0 |-> <<>>, k1 |-> <<>>], Read_iter(reader[1]))

\* thread t: reader.get_prefix(p)
ThreadGetPrefix(t, p) ==
    /\ reader # None
    /\ ThreadStartIter(t, [kind |-> "prefix", k0 |-> p, k1 |-> <<>>],
                       Read_get_prefix(reader[1], p))

\* thread t: reader.get_range(k0, k1)
ThreadGetRange(t, k0, k1) ==
    /\ reader # None
    /\ ThreadStartIter(t, [kind |-> "range", k0 |-> k0, k1 |-> k1],
                       Read_get_range(reader[1], k0, k1))

\* thread t: it.next() on its iterator
ThreadIterNext(t) ==
    /\ reader # None
    /\ threads[t].iter # None
    /\ ~threads[t].ended
    /\ LET r == Iter_next(reader[1], threads[t].iter[1])
       IN  threads' = [threads EXCEPT ![t].iter = Some(r.it),
                                      ![t].out = @ \o r.item,
                                      ![t].ended = (r.item = None)]
    /\ UNCHANGED <<wvars, svars, mvars, fvars>>

\* thread t: its exhausted iterator goes out of scope
ThreadDropIter(t) ==
    /\ threads[t].iter # None
    /\ threads[t].ended
    /\ threads' = [threads EXCEPT ![t].iter = None, ![t].out = <<>>,
                                  ![t].ended = FALSE, ![t].query = None]
    /\ UNCHANGED <<wvars, svars, mvars, fvars>>

NextP ==
    \E t \in Threads :
        \/ \E k \in SharedKeys \cup {<<>>} : ThreadGet(t, k)
        \/ ThreadIter(t)
        \/ \E p \in SharedKeys \cup {<<>>} : ThreadGetPrefix(t, p)
        \/ \E k0 \in SharedKeys, k1 \in SharedKeys : ThreadGetRange(t, k0, k1)
        \/ ThreadIterNext(t)
        \/ ThreadDropIter(t)

SpecP == InitP /\ [][NextP]_vars

(***************************************************************************)
(* Fileset: the files of a directory, a setfile listing some of them, and  *)
(* one thread that reads the Fileset, reloads it, edits the setfile and    *)
(* lets time pass.                                                         *)
(***************************************************************************)
MaxTicks == 3
FileNames == {1, 2}
FileKeys == [n \in FileNames |-> IF n = 1 THEN {<<1>>, <<2>>} ELSE {<<1>>}]
ReloadIntervals == {None, Some(2)}

\* the file a Writer leaves behind that was given the entries and dropped
SourceFile(entries) ==
    Writer_drop(Writer_add_all_sorted(
        WriterOptions_create_from_file(BlockSize, BlockRestartInterval), entries).w)

\* the directory of the setfile: file n holds FileKeys[n], each with value <<n>>
FilesetDir == [n \in FileNames |-> SourceFile(SourceEntries(FileKeys[n], n))]

\* the listings a setfile can hold: no file twice
Listings == {l \in SeqsOf(FileNames, 0, Cardinality(FileNames)) :
                \A i, j \in 1..Len(l) : i # j => l[i] # l[j]}

\* the entries of the listed files, in listing order
ListedEntries(listing) ==
    [i \in 1..Len(listing) |-> SourceEntries(FileKeys[listing[i]], listing[i])]

\* the number of clock advances that lead to a time
Ticks(time) == (time \div DefaultReloadInterval) + (time % DefaultReloadInterval)

\* FilesetOptions::new()[.reload_interval_seconds(n)].open_from_path(setfile, merge_fn)
InitG ==
    \E fn \in {"collision"}, ri \in ReloadIntervals, listing \in Listings :
        /\ fileset = Some(FilesetOptions_open_from_path(ri, FilesetDir, listing, fn, 0))
        /\ setfile = listing
        /\ now = 0
        /\ mergeFn = fn
        /\ msources = <<>>
        /\ mergeCalls = <<>>
        /\ merger = None
        /\ threads = IdleThreads
        /\ writer = None
        /\ disk = EmptyFile
        /\ reader = None
        /\ iter = None
        /\ out = <<>>
        /\ ended = FALSE
        /\ lastGet = None
        /\ lastOp = None
        /\ prevWriter = None
        /\ accepted = <<>>
        /\ prevAccepted = <<>>
        /\ rejected = {}
        /\ recovered = FALSE
        /\ ncalls = 0
        /\ query = None
        /\ sorter = None
        /\ scalls = <<>>
        /\ maxMemory = None

\* d seconds pass
Advance(d) ==
    /\ Ticks(now) < MaxTicks
    /\ now' = now + d
    /\ lastGet' = None
    /\ lastOp' = None
    /\ UNCHANGED <<writer, disk, reader, iter, out, ended, prevWriter, accepted,
                   prevAccepted, rejected, recovered, ncalls, query, svars, mvars, pvars,
                   fileset, setfile>>

\* the setfile is rewritten with another listing
EditSetfile(listing) ==
    /\ listing # setfile
    /\ setfile' = listing
    /\ lastGet' = None
    /\ lastOp' = None
    /\ UNCHANGED <<writer, disk, reader, iter, out, ended, prevWriter, accepted,
                   prevAccepted, rejected, recovered, ncalls, query, svars, mvars, pvars,
                   fileset, now>>

\* fileset.reload(): it borrows the Fileset mutably, so no iterator is alive
FilesetReload ==
    /\ fileset # None
    /\ iter = None
    /\ LET fs == Fileset_reload(fileset[1], FilesetDir, setfile, now)
       IN  /\ fileset' = Some(fs)
           /\ lastOp' = Some([kind |-> "reload",
                              at |-> now,
                              last |-> fileset[1].mtbl_fileset.fs_last,
                              interval |-> fileset[1].options.reload_interval_seconds,
                              before |-> fileset[1].mtbl_fileset.files,
                              listing |-> setfile,
                              after |-> fs.mtbl_fileset.files])
    /\ lastGet' = None
    /\ UNCHANGED <<writer, disk, reader, iter, out, ended, prevWriter, accepted,
                   prevAccepted, rejected, recovered, ncalls, query, svars, mvars, pvars,
                   setfile, now>>

\* the Fileset as a read finds it: reading reloads it when the interval has passed
Fileset_on_read(fs, dir, listing, time) ==
    [fs EXCEPT !.mtbl_fileset = mtbl_fileset_reload(@, dir, listing, time)]

\* fileset.get(k)
FilesetGet(k) ==
    /\ fileset # None
    /\ LET fs == Fileset_on_read(fileset[1], FilesetDir, setfile, now)
       IN  /\ fileset' = Some(fs)
           /\ lastGet' = Some([key |-> k, res |-> Read_get(Fileset_raw_mtbl_source(fs), k),
                               files |-> fs.mtbl_fileset.files])
    /\ lastOp' = None
    /\ UNCHANGED <<writer, disk, reader, iter, out, ended, prevWriter, accepted,
                   prevAccepted, rejected, recovered, ncalls, query, svars, mvars, pvars,
                   setfile, now>>

\* fileset.iter()
FilesetIter ==
    /\ fileset # None
    /\ iter = None
    /\ LET fs == Fileset_on_read(fileset[1], FilesetDir, setfile, now)
       IN  /\ fileset' = Some(fs)
           /\ iter' = Some(Read_iter(Fileset_raw_mtbl_source(fs)))
           /\ msources' = ListedEntries(fs.mtbl_fileset.files)
    /\ query' = Some([kind |-> "iter", k0 |-> <<>>, k1 |-> <<>>])
    /\ out' = <<>>
    /\ ended' = FALSE
    /\ lastGet' = None
    /\ lastOp' = None
    /\ UNCHANGED <<writer, disk, reader, prevWriter, accepted, prevAccepted,
                   rejected, recovered, ncalls, svars, merger, mergeCalls, pvars,
                   setfile, now>>

\* it.next() on an iterator of the Fileset
FilesetIterNext ==
    /\ fileset # None
    /\ iter # None
    /\ ~ended
    /\ LET r == Iter_next(Fileset_raw_mtbl_source(fileset[1]), iter[1])
       IN  /\ iter' = Some(r.it)
           /\ out' = out \o r.item
           /\ ended' = (r.item = None)
    /\ lastGet' = None
    /\ lastOp' = None
    /\ UNCHANGED <<writer, disk, reader, prevWriter, accepted,
                   prevAccepted, rejected, recovered, ncalls, query, svars, mvars, pvars,
                   fvars>>

NextG ==
    \/ \E d \in {1, DefaultReloadInterval} : Advance(d)
    \/ \E listing \in Listings : EditSetfile(listing)
    \/ FilesetReload
    \/ \E k \in MergerKeys : FilesetGet(k)
    \/ FilesetIter
    \/ FilesetIterNext
    \/ DropIter

SpecG == InitG /\ [][NextG]_vars

(***************************************************************************)
(* Threads sharing one Merger that owns a Fileset: Merger::add_source      *)
(* takes any source, and Merger is Sync.  A get through the Merger reads   *)
(* the Fileset, which reloads itself when its interval has passed; the     *)
(* reload closes the opened Readers and then opens the listed ones, with   *)
(* no lock held, so another thread can read in between.                    *)
(***************************************************************************)
\* what a read returns that races with a reload: any value, or absence
RaceOutcomes == {None} \cup {Some(v) : v \in Values \cup {<<3>>}}

\* the engine fileset the Merger reads: its only source
MergerFileset(m) == m.mtbl_merger.sources[1]

\* the Merger whose Fileset has moved to state f: the engine's source handle
\* and the owned Fileset are one object
Merger_with_fileset(m, f) ==
    [m EXCEPT !.mtbl_merger.sources[1] = f, !._sources[1].mtbl_fileset = f]

\* let mut merger = Merger::new(vec![], merge_fn); merger.add_source(fileset)
InitT ==
    \E ri \in ReloadIntervals, listing \in Listings :
        /\ merger = Some(Merger_add_source(
                             Merger_new(<<>>, "choose_last"),
                             FilesetOptions_open_from_path(ri, FilesetDir, listing,
                                                           "collision", 0)))
        /\ setfile = listing
        /\ now = 0
        /\ mergeFn = "collision"
        /\ fileset = None
        /\ msources = <<>>
        /\ mergeCalls = <<>>
        /\ threads = IdleThreads
        /\ writer = None
        /\ disk = EmptyFile
        /\ reader = None
        /\ iter = None
        /\ out = <<>>
        /\ ended = FALSE
        /\ lastGet = None
        /\ lastOp = None
        /\ prevWriter = None
        /\ accepted = <<>>
        /\ prevAccepted = <<>>
        /\ rejected = {}
        /\ recovered = FALSE
        /\ ncalls = 0
        /\ query = None
        /\ sorter = None
        /\ scalls = <<>>
        /\ maxMemory = None

\* thread t: merger.get(k) when the Fileset needs no reload and no other
\* thread is reloading it
ThreadMergerGet(t, k) ==
    /\ merger # None
    /\ threads[t].pc = "idle"
    /\ ~MergerFileset(merger[1]).loading
    /\ ~fs_due(MergerFileset(merger[1]), now)
    /\ lastGet' = Some([key |-> k,
                        res |-> Read_get(Merger_raw_mtbl_source(merger[1]), k),
                        files |-> MergerFileset(merger[1]).files,
                        closed |-> MergerFileset(merger[1]).loading])
    /\ UNCHANGED <<writer, disk, reader, iter, out, ended, lastOp, prevWriter, accepted,
                   prevAccepted, rejected, recovered, ncalls, query, svars, mvars, pvars,
                   fvars>>

\* thread t: merger.get(k) when the interval has passed: the Fileset starts to
\* reload and closes its Readers
ThreadReloadBegin(t, k) ==
    /\ merger # None
    /\ threads[t].pc = "idle"
    /\ ~MergerFileset(merger[1]).loading
    /\ fs_due(MergerFileset(merger[1]), now)
    /\ merger' = Some(Merger_with_fileset(merger[1], fs_unload(MergerFileset(merger[1]))))
    /\ threads' = [threads EXCEPT ![t].pc = "loading",
                                  ![t].query = Some([kind |-> "get", k0 |-> k, k1 |-> k])]
    /\ lastGet' = None
    /\ UNCHANGED <<writer, disk, reader, iter, out, ended, lastOp, prevWriter, accepted,
                   prevAccepted, rejected, recovered, ncalls, query, svars, msources,
                   mergeCalls, fvars>>

\* thread t: the reload it started opens the listed files, and its get reads them
ThreadReloadEnd(t) ==
    /\ merger # None
    /\ threads[t].pc = "loading"
    /\ LET m == Merger_with_fileset(merger[1],
                    fs_load(MergerFileset(merger[1]), FilesetDir, setfile, now))
       IN  /\ merger' = Some(m)
           /\ lastGet' = Some([key |-> threads[t].query[1].k0,
                               res |-> Read_get(Merger_raw_mtbl_source(m),
                                                threads[t].query[1].k0),
                               files |-> setfile,
                               closed |-> MergerFileset(m).loading])
    /\ threads' = [threads EXCEPT ![t].pc = "idle", ![t].query = None]
    /\ UNCHANGED <<writer, disk, reader, iter, out, ended, lastOp, prevWriter, accepted,
                   prevAccepted, rejected, recovered, ncalls, query, svars, msources,
                   mergeCalls, fvars>>

\* thread t: merger.get(k) while another thread is inside the reload: the read
\* goes through Readers that are being closed
ThreadRacingGet(t, k) ==
    /\ merger # None
    /\ threads[t].pc = "idle"
    /\ MergerFileset(merger[1]).loading
    /\ \E res \in RaceOutcomes :
          lastGet' = Some([key |-> k, res |-> res, files |-> setfile,
                           closed |-> MergerFileset(merger[1]).loading])
    /\ UNCHANGED <<writer, disk, reader, iter, out, ended, lastOp, prevWriter, accepted,
                   prevAccepted, rejected, recovered, ncalls, query, svars, mvars, pvars,
                   fvars>>

\* the Merger goes out of scope, when no thread is inside a call on it
ThreadsMergerDrop ==
    /\ merger # None
    /\ \A t \in Threads : threads[t].pc = "idle"
    /\ lastOp' = Some([kind |-> "drop",
                       owned |-> Len(merger[1]._sources),
                       registered |-> Len(merger[1].mtbl_merger.sources),
                       calls |-> Merger_drop(merger[1])])
    /\ merger' = None
    /\ lastGet' = None
    /\ UNCHANGED <<writer, disk, reader, iter, out, ended, prevWriter, accepted,
                   prevAccepted, rejected, recovered, ncalls, query, svars, msources,
                   mergeCalls, pvars, fvars>>

\* the clock and the setfile move only between calls of the threads
NextT ==
    \/ \E t \in Threads, k \in MergerKeys : ThreadMergerGet(t, k)
    \/ \E t \in Threads, k \in MergerKeys : ThreadReloadBegin(t, k)
    \/ \E t \in Threads : ThreadReloadEnd(t)
    \/ \E t \in Threads, k \in MergerKeys : ThreadRacingGet(t, k)
    \/ ThreadsMergerDrop
    \/ \E d \in {1, DefaultReloadInterval} : Advance(d)
    \/ \E listing \in Listings : EditSetfile(listing)

SpecT == InitT /\ [][NextT]_vars

(***************************************************************************)
(* Properties.  The expected results are stated over the history of calls  *)
(* with an order and a prefix test of their own.                           *)
(***************************************************************************)
RECURSIVE LexLess(_, _)
LexLess(a, b) ==
    IF b = <<>> THEN FALSE
    ELSE IF a = <<>> THEN TRUE
    ELSE IF Head(a) # Head(b) THEN Head(a) < Head(b)
    ELSE LexLess(Tail(a), Tail(b))

LexLeq(a, b) == a = b \/ LexLess(a, b)

StartsWith(key, p) == Len(p) <= Len(key) /\ \A i \in 1..Len(p) : key[i] = p[i]

Pairs(ents) == [i \in 1..Len(ents) |-> <<ents[i].key, ents[i].val>>]

IsPrefixOf(s, t) == Len(s) <= Len(t) /\ SubSeq(t, 1, Len(s)) = s

\* the value the history records for a key, None if the key was never accepted
AcceptedValue(k) ==
    IF \E i \in 1..Len(accepted) : accepted[i].key = k
    THEN Some(accepted[CHOOSE i \in 1..Len(accepted) : accepted[i].key = k].val)
    ELSE None

\* may a writer whose accepted entries are ents take key k next
Addable(ents, k) == ents = <<>> \/ LexLess(Last(ents).key, k)

IsOp(kind) == lastOp # None /\ lastOp[1].kind = kind

\* C1: after adding entries with strictly increasing keys to a fresh Writer and
\* finalizing it, iter() on a Reader of the file yields exactly the accepted
\* (key, value) sequence, in order, and then the end of the sequence.
C1_RoundTrip ==
    (query # None /\ query[1].kind = "iter") =>
        /\ IsPrefixOf(out, Pairs(accepted))
        /\ ended => out = Pairs(accepted)

C1_Witness ==
    /\ query # None /\ query[1].kind = "iter"
    /\ ended
    /\ Len(out) = 3
    /\ Len(disk.data) >= 2
    /\ rejected = {}

\* C2: get(k) on a Reader of the finalized file returns Some(v) exactly when
\* (k, v) was accepted by the Writer, and None for a key never accepted.
C2_PointLookup ==
    lastGet # None => lastGet[1].res = AcceptedValue(lastGet[1].key)

C2_Witness ==
    /\ lastGet # None
    /\ lastGet[1].res # None
    /\ Len(accepted) = 3
    /\ Len(disk.data) >= 2
    /\ lastGet[1].key = accepted[3].key

\* the part of C3 that holds as stated: add returns Err exactly when the key is
\* not strictly greater than the last accepted key, a rejected entry is not
\* recorded, and the finalized file holds exactly the accepted entries.
C3_Rejects ==
    /\ IsOp("add") =>
          /\ lastOp[1].res = "Err" <=> ~Addable(prevAccepted, lastOp[1].items[1].key)
          /\ lastOp[1].res = "Err" => accepted = prevAccepted
          /\ lastOp[1].res = "Ok" => accepted = prevAccepted \o lastOp[1].items
    /\ reader # None => Iter_collect(reader[1], Read_iter(reader[1])) = Pairs(accepted)

\* C3 as claimed: ... and a later get(k) of the rejected key returns None.
C3_Original ==
    /\ C3_Rejects
    /\ (lastGet # None /\ lastGet[1].key \in rejected) => lastGet[1].res = None

\* C3 as amended: Writer.add(k, v) returns Err whenever k is not strictly greater
\* than the last accepted key, the entry is then not written and the finalized file
\* holds exactly the accepted entries; a later get(k) of the rejected key returns
\* None unless another add of the same key was accepted, and then the accepted value.
C3_Amended ==
    /\ C3_Rejects
    /\ (lastGet # None /\ lastGet[1].key \in rejected) =>
          lastGet[1].res = (IF \E i \in 1..Len(accepted) : accepted[i].key = lastGet[1].key
                            THEN AcceptedValue(lastGet[1].key) ELSE None)

C3_Witness ==
    /\ lastGet # None
    /\ lastGet[1].key \in rejected
    /\ lastGet[1].res # None
    /\ Cardinality(rejected) = 2

\* C4: a rejected add leaves the Writer as it was (last accepted key and accepted
\* entries), a later add with a key strictly greater than the last accepted key
\* succeeds and its entry is in the finalized file.
C4_Recoverable ==
    /\ (IsOp("add") /\ writer # None /\ lastOp[1].res = "Err") => writer = prevWriter
    /\ (IsOp("add") /\ rejected # {} /\ Addable(prevAccepted, lastOp[1].items[1].key)) =>
          /\ lastOp[1].res = "Ok"
          /\ Last(accepted) = lastOp[1].items[1]
          /\ writer # None => writer[1].last_key = lastOp[1].items[1].key
    /\ (recovered /\ reader # None) =>
          Iter_collect(reader[1], Read_iter(reader[1])) = Pairs(accepted)

C4_Witness ==
    /\ recovered
    /\ reader # None
    /\ Len(accepted) = 2
    /\ Len(Iter_collect(reader[1], Read_iter(reader[1]))) = 2

\* the number of leading elements of items a writer holding ents accepts
RECURSIVE AcceptedPrefixLen(_, _)
AcceptedPrefixLen(ents, items) ==
    IF items = <<>> \/ ~Addable(ents, Head(items).key) THEN 0
    ELSE 1 + AcceptedPrefixLen(Append(ents, Head(items)), Tail(items))

\* C5: add_all_sorted stops at the first element the Writer rejects: it returns Err,
\* the elements before it are written, that element and all later ones are not,
\* also those whose key is greater than the last accepted key.
C5_StopsAtFirstRejected ==
    IsOp("add_all_sorted") =>
        LET items == lastOp[1].items
            n     == AcceptedPrefixLen(prevAccepted, items)
        IN  /\ lastOp[1].res = (IF n < Len(items) THEN "Err" ELSE "Ok")
            /\ accepted = prevAccepted \o SubSeq(items, 1, n)
            /\ writer # None => writer[1].m.count_entries = Len(prevAccepted) + n
            /\ writer = None =>
                  LET r == Reader_open_from_file(disk)
                  IN  /\ r # None
                      /\ Iter_collect(r[1], Read_iter(r[1]))
                            = Pairs(prevAccepted \o SubSeq(items, 1, n))

C5_Witness ==
    /\ IsOp("add_all_sorted")
    /\ writer = None
    /\ lastOp[1].res = "Err"
    /\ Len(lastOp[1].items) = 3
    /\ Len(accepted) = 1
    /\ LexLess(accepted[1].key, lastOp[1].items[3].key)

\* the stored entries inside a window, in ascending key order
InWindow(q, key) ==
    CASE q.kind = "iter"   -> TRUE
      [] q.kind = "prefix" -> StartsWith(key, q.k0)
      [] q.kind = "range"  -> LexLeq(q.k0, key) /\ LexLeq(key, q.k1)

WindowOf(q) == SelectSeq(Pairs(accepted), LAMBDA e : InWindow(q, e[1]))

\* C6: get_range(lo, hi) yields exactly the stored entries with lo <= key <= hi,
\* both bounds inclusive, in ascending key order, and nothing when lo > hi or no
\* key lies in the window.
C6_Range ==
    (query # None /\ query[1].kind = "range") =>
        /\ IsPrefixOf(out, WindowOf(query[1]))
        /\ ended => out = WindowOf(query[1])

C6_Witness ==
    /\ query # None /\ query[1].kind = "range"
    /\ ended
    /\ Len(out) = 2
    /\ Len(accepted) = 3
    /\ out[2][1] = query[1].k1
    /\ out[1][1] # query[1].k0

\* C7: get_prefix(p) yields exactly the stored entries whose key starts with p, in
\* ascending key order; the empty prefix yields every entry and iteration stops at
\* the first key that no longer has the prefix.
C7_Prefix ==
    (query # None /\ query[1].kind = "prefix") =>
        /\ IsPrefixOf(out, WindowOf(query[1]))
        /\ ended => out = WindowOf(query[1])
        /\ (ended /\ query[1].k0 = <<>>) => out = Pairs(accepted)

C7_Witness ==
    /\ query # None /\ query[1].kind = "prefix"
    /\ ended
    /\ Len(out) = 2
    /\ Len(accepted) = 3
    /\ query[1].k0 # <<>>
    /\ ~StartsWith(accepted[3].key, query[1].k0)

(***************************************************************************)
(* Sorter properties.                                                      *)
(***************************************************************************)
\* the distinct elements of a set of keys in ascending order
RECURSIVE Ascending(_)
Ascending(keys) ==
    IF keys = {} THEN <<>>
    ELSE LET k == CHOOSE x \in keys : \A y \in keys : LexLeq(x, y)
         IN  <<k>> \o Ascending(keys \ {k})

KeysOf(calls) == {calls[i].key : i \in 1..Len(calls)}

ValuesOf(calls, k) ==
    LET hits == SelectSeq(calls, LAMBDA e : e.key = k)
    IN  [i \in 1..Len(hits) |-> hits[i].val]

\* ((v1 + v2) + v3) + ... with the merge function, for a non-empty sequence
RECURSIVE FoldLeft(_, _, _)
FoldLeft(fn, k, vals) ==
    IF Len(vals) = 1 THEN vals[1]
    ELSE ApplyMergeFn(fn, k, FoldLeft(fn, k, SubSeq(vals, 1, Len(vals) - 1)), vals[Len(vals)])

\* one entry per distinct key, ascending, each the left fold over all its values
LeftFoldOutput(calls, fn) ==
    LET ks == Ascending(KeysOf(calls))
    IN  [i \in 1..Len(ks) |-> <<ks[i], FoldLeft(fn, ks[i], ValuesOf(calls, ks[i]))>>]

Budget(mm) == IF mm = None THEN DefaultMaxMemory ELSE mm[1]

\* the runs the calls fall into: a run ends with the call that takes the
\* buffered bytes over the budget
RECURSIVE Runs(_, _, _, _)
Runs(calls, budget, cur, bytes) ==
    IF calls = <<>> THEN (IF cur = <<>> THEN <<>> ELSE <<cur>>)
    ELSE LET e == Head(calls)
             b == bytes + Len(e.key) + Len(e.val)
         IN  IF b > budget
             THEN <<Append(cur, e)>> \o Runs(Tail(calls), budget, <<>>, 0)
             ELSE Runs(Tail(calls), budget, Append(cur, e), b)

\* one entry per distinct key, ascending, each the fold in run order of the
\* left folds of its values inside each run
RunFoldOutput(calls, fn, budget) ==
    LET runs == Runs(calls, budget, <<>>, 0)
        ks   == Ascending(KeysOf(calls))
        perRun(k) == LET with == SelectSeq(runs, LAMBDA r : k \in KeysOf(r))
                     IN  [j \in 1..Len(with) |-> FoldLeft(fn, k, ValuesOf(with[j], k))]
    IN  [i \in 1..Len(ks) |-> <<ks[i], FoldLeft(fn, ks[i], perRun(ks[i]))>>]

MergeValues == {<<b>> : b \in 0..4}

IsAssociative(fn) ==
    \A k \in SorterKeys, a \in MergeValues, b \in MergeValues, c \in MergeValues :
        ApplyMergeFn(fn, k, ApplyMergeFn(fn, k, a, b), c)
            = ApplyMergeFn(fn, k, a, ApplyMergeFn(fn, k, b, c))

\* what a Reader of the output file iterates, <<>> if the file cannot be opened
FileContents(file) ==
    LET r == Reader_open_from_file(file)
    IN  IF r = None THEN <<>> ELSE Iter_collect(r[1], Read_iter(r[1]))

SorterDone == sorter = None /\ scalls # <<>>

\* C8 as claimed: for any adds, memory budget and merge function the finalized
\* file holds one entry per distinct key, ascending, whose value is the left fold
\* of the merge function over all values added for the key in call order.
C8_Original ==
    SorterDone =>
        /\ Reader_open_from_file(disk) # None
        /\ FileContents(disk) = LeftFoldOutput(scalls, mergeFn)

\* C8 as amended: the finalized file holds one entry per distinct key, ascending;
\* the value of a key is the fold, in spill order, of the left folds of the values
\* added for the key inside each sorted run, which is the left fold over all its
\* values in call order when the merge function is associative or no run was
\* spilled before finalize.
C8_Amended ==
    SorterDone =>
        /\ Reader_open_from_file(disk) # None
        /\ FileContents(disk) = RunFoldOutput(scalls, mergeFn, Budget(maxMemory))
        /\ (IsAssociative(mergeFn) \/ Len(Runs(scalls, Budget(maxMemory), <<>>, 0)) = 1)
              => FileContents(disk) = LeftFoldOutput(scalls, mergeFn)

C8_Witness ==
    /\ SorterDone
    /\ mergeFn = "diff"
    /\ Len(Runs(scalls, Budget(maxMemory), <<>>, 0)) = 2
    /\ Len(scalls) = 4
    /\ Len(FileContents(disk)) = 2
    /\ FileContents(disk) # LeftFoldOutput(scalls, mergeFn)

\* the output file of a Sorter created with max_memory mm and merge function fn,
\* given the calls and dropped
RECURSIVE SorterAfter(_, _)
SorterAfter(s, calls) ==
    IF calls = <<>> THEN s
    ELSE SorterAfter(Sorter_add(s, Head(calls).key, Head(calls).val).s, Tail(calls))

SorterOutput(calls, mm, fn) ==
    FileContents(Sorter_drop(SorterAfter(
        SorterOptions_create_from_writer(
            mm, WriterOptions_create_from_file(BlockSize, BlockRestartInterval), fn),
        calls)))

\* C9 as claimed: for the same adds and merge function the finalized output is
\* the same for every memory budget, whether zero, one or many runs were spilled.
C9_Original ==
    SorterDone =>
        \A mm \in MaxMemoryOptions : FileContents(disk) = SorterOutput(scalls, mm, mergeFn)

\* C9 as amended: for the same adds and the same associative merge function the
\* finalized output is the same for every memory budget.
C9_Amended ==
    (SorterDone /\ IsAssociative(mergeFn)) =>
        \A mm \in MaxMemoryOptions : FileContents(disk) = SorterOutput(scalls, mm, mergeFn)

C9_Witness ==
    /\ SorterDone
    /\ mergeFn = "choose_last"
    /\ maxMemory = Some(1)
    /\ Len(scalls) = 4
    /\ Len(FileContents(disk)) = 2

(***************************************************************************)
(* Merger properties.                                                      *)
(***************************************************************************)
\* the values the sources hold for key k, in source-insertion order
SourceValues(srcs, k) ==
    LET holding == SelectSeq(srcs, LAMBDA ents : k \in KeysOf(ents))
    IN  [i \in 1..Len(holding) |-> ValuesOf(holding[i], k)[1]]

\* every key of the union once, ascending, with its source's value or the fold
\* of the merge function over the values of the sources that hold it
ExpectedMerge(srcs, fn) ==
    LET ks == Ascending(UNION {KeysOf(srcs[i]) : i \in 1..Len(srcs)})
    IN  [i \in 1..Len(ks) |-> <<ks[i], FoldLeft(fn, ks[i], SourceValues(srcs, ks[i]))>>]

\* C10: iterating a Merger over N sorted sources yields every key of the union
\* of the sources exactly once, in ascending key order; a key held by one source
\* keeps that source's value and a key held by several sources gets the fold of
\* the merge function over those sources' values.
C10_MergerUnion ==
    (merger # None /\ iter # None /\ query = Some([kind |-> "iter", k0 |-> <<>>, k1 |-> <<>>])) =>
        /\ IsPrefixOf(out, ExpectedMerge(msources, mergeFn))
        /\ ended => out = ExpectedMerge(msources, mergeFn)

C10_Witness ==
    /\ merger # None
    /\ iter # None
    /\ ended
    /\ Len(msources) = 3
    /\ mergeFn = "diff"
    /\ Len(out) = 2
    /\ \E i \in 1..3 : Len(msources[i]) = 1
    /\ \E k \in MergerKeys : Len(SourceValues(msources, k)) = 3

\* C11: Merger collisions are folded in source-insertion order: with
\* merge_choose_last_value the value of a key is the one of the last-added
\* source that holds the key, with merge_choose_first_value the one of the
\* first-added source that holds it, for any number of sources.
C11_InsertionOrder ==
    (merger # None /\ iter # None /\ mergeFn \in {"choose_last", "choose_first"}) =>
        \A i \in 1..Len(out) :
            LET held == SourceValues(msources, out[i][1])
            IN  /\ held # <<>>
                /\ out[i][2] = IF mergeFn = "choose_last" THEN held[Len(held)] ELSE held[1]

C11_Witness ==
    /\ merger # None
    /\ iter # None
    /\ mergeFn = "choose_last"
    /\ Len(msources) = 3
    /\ \E i \in 1..Len(out) :
          /\ Len(SourceValues(msources, out[i][1])) = 3
          /\ out[i][2] = <<3>>

\* C12: the merge function is invoked only on key collisions: while a Merger
\* produces a key held by n sources the merge function is called exactly n-1
\* times, each time with that key, and not at all for a key held by a single
\* source, whose value is returned unmodified; a call that produces no entry
\* makes no call of the merge function.
C12_CallsOnCollisionOnly ==
    /\ (merger # None /\ iter # None /\ out # <<>> /\ ~ended) =>
          LET k    == out[Len(out)][1]
              held == SourceValues(msources, k)
          IN  /\ Len(mergeCalls) = Len(held) - 1
              /\ \A i \in 1..Len(mergeCalls) : mergeCalls[i].key = k
              /\ Len(held) = 1 => out[Len(out)][2] = held[1]
    /\ (merger # None /\ iter # None /\ ended) => mergeCalls = <<>>
    /\ (merger # None /\ lastGet # None) =>
          LET held == SourceValues(msources, lastGet[1].key)
          IN  /\ Len(mergeCalls) = IF held = <<>> THEN 0 ELSE Len(held) - 1
              /\ \A i \in 1..Len(mergeCalls) : mergeCalls[i].key = lastGet[1].key
              /\ Len(held) = 1 => lastGet[1].res = Some(held[1])

C12_Witness ==
    /\ merger # None
    /\ iter # None
    /\ Len(out) = 2
    /\ ~ended
    /\ Len(mergeCalls) = 2
    /\ Len(SourceValues(msources, out[1][1])) = 1

\* C13: on a Merger get(k) agrees with iteration: get(k) returns Some(v) exactly
\* when iter() yields the entry (k, v), and None when iter() yields no entry
\* with key k.
C13_GetAgreesWithIter ==
    (merger # None /\ lastGet # None) =>
        LET src  == Merger_raw_mtbl_source(merger[1])
            all  == Iter_collect(src, Read_iter(src))
            hits == {i \in 1..Len(all) : all[i][1] = lastGet[1].key}
        IN  /\ hits = {} => lastGet[1].res = None
            /\ \A i \in hits : lastGet[1].res = Some(all[i][2])

C13_Witness ==
    /\ merger # None
    /\ lastGet # None
    /\ Len(msources) = 3
    /\ mergeFn = "diff"
    /\ Len(SourceValues(msources, lastGet[1].key)) = 3
    /\ lastGet[1].res # None

\* C14: dropping a Writer without any explicit close finalizes the file: from
\* the drop on the file has its index and its footer, a Reader opens on it and
\* sees every accepted entry, also those of the partial last block; the file is
\* never left with data blocks but no index or footer.
C14_DropFinalizes ==
    (writer = None /\ sorter = None /\ merger = None) =>
        /\ disk.index # None
        /\ disk.footer # None
        /\ Reader_open_from_file(disk) # None
        /\ FileContents(disk) = Pairs(accepted)

C14_Witness ==
    /\ writer = None
    /\ reader = None
    /\ Len(accepted) = 3
    /\ Len(disk.data) = 2
    /\ disk.footer # None
    /\ prevWriter # None
    /\ prevWriter[1].sink.footer = None

\* the number of entries stored in the data blocks of a file
RECURSIVE CountRecs(_)
CountRecs(blocks) ==
    IF blocks = <<>> THEN 0 ELSE Len(Head(blocks).recs) + CountRecs(Tail(blocks))

C16_FailurePropagates ==
    (IsOp("drop") /\ lastOp[1].engine = "failure") => lastOp[1].res = "Err"

\* the block an iterator stands on cannot be decoded
DecodeFails(r, it) ==
    /\ it.bi >= 1
    /\ it.bi <= Len(r.index)
    /\ reader_load_block(r, it.bi) = None

\* C17: a decode failure during get or during a step of an iteration is
\* returned to the caller of that get / next as an error outcome, not as key
\* absence or as the normal end of the sequence; the entries the iterator
\* produced before the failing step remain valid and the sequence ends at that
\* step.
C17_DecodeErrorsSurface ==
    /\ (reader # None /\ lastGet # None
            /\ DecodeFails(reader[1], mtbl_source_get(reader[1], lastGet[1].key)))
          => lastGet[1].res # None
    /\ ~(reader # None /\ iter # None /\ ended /\ DecodeFails(reader[1], iter[1]))
    /\ (reader # None /\ iter # None) => IsPrefixOf(out, Pairs(accepted))

(***************************************************************************)
(* Shared Reader properties.                                               *)
(***************************************************************************)
\* C18: a Reader is safe for concurrent use: in any interleaving of get calls
\* and iteration steps of several threads on one shared Reader, every get
\* returns the stored value of its key (None for an absent key), every thread's
\* iteration yields the stored entries in order, and the Reader itself stays as
\* it was opened.
C18_SharedReaderSafe ==
    (reader # None /\ \E t \in Threads : threads[t].count > 0) =>
        /\ reader = Reader_open_from_file(disk)
        /\ lastGet # None => lastGet[1].res = AcceptedValue(lastGet[1].key)
        /\ \A t \in Threads :
              (threads[t].query # None /\ threads[t].query[1].kind = "iter") =>
                  /\ IsPrefixOf(threads[t].out, Pairs(accepted))
                  /\ threads[t].ended => threads[t].out = Pairs(accepted)

C18_Witness ==
    /\ reader # None
    /\ lastGet # None
    /\ lastGet[1].res = Some(<<2>>)
    /\ \A t \in Threads : threads[t].query # None /\ threads[t].query[1].kind = "iter"
    /\ Len(threads["t1"].out) = 1
    /\ ~threads["t1"].ended
    /\ Len(threads["t2"].out) = 2
    /\ threads["t2"].ended

\* C19: each call of iter(), get_prefix() or get_range() yields an independent
\* sequence that starts over from the beginning of its window: whatever the
\* other iterators and get calls on the same source do in between, an iterator
\* yields the entries of its own window in order, and an iter() made after an
\* earlier one was exhausted yields the full sequence again.
C19_IndependentIterators ==
    \A t \in Threads :
        threads[t].query # None =>
            /\ IsPrefixOf(threads[t].out, WindowOf(threads[t].query[1]))
            /\ threads[t].ended => threads[t].out = WindowOf(threads[t].query[1])

C19_Witness ==
    /\ threads["t1"].count = 2
    /\ threads["t1"].query = Some([kind |-> "iter", k0 |-> <<>>, k1 |-> <<>>])
    /\ threads["t1"].ended
    /\ Len(threads["t1"].out) = 2
    /\ threads["t2"].query # None
    /\ threads["t2"].query[1].kind = "prefix"
    /\ Len(threads["t2"].out) = 1
    /\ ~threads["t2"].ended

(***************************************************************************)
(* Metadata.                                                               *)
(***************************************************************************)
RECURSIVE SumKeyLen(_)
SumKeyLen(ents) ==
    IF ents = <<>> THEN 0 ELSE Len(Head(ents).key) + SumKeyLen(Tail(ents))

RECURSIVE SumValLen(_)
SumValLen(ents) ==
    IF ents = <<>> THEN 0 ELSE Len(Head(ents).val) + SumValLen(Tail(ents))

\* C20: the metadata of a Reader reflects exactly what the Writer accepted:
\* count_entries is the number of adds that returned Ok (rejected adds are not
\* counted), bytes_keys the sum of the accepted keys' lengths, bytes_values the
\* sum of the accepted values' lengths, count_data_blocks the number of data
\* blocks written.
C20_MetadataReflectsAccepted ==
    reader # None =>
        /\ Reader_count_entries(reader[1]) = Len(accepted)
        /\ Reader_bytes_keys(reader[1]) = SumKeyLen(accepted)
        /\ Reader_bytes_values(reader[1]) = SumValLen(accepted)
        /\ Reader_count_data_blocks(reader[1]) = Len(disk.data)

C20_Witness ==
    /\ reader # None
    /\ rejected # {}
    /\ Len(accepted) = 2
    /\ Reader_count_entries(reader[1]) = 2
    /\ Reader_count_data_blocks(reader[1]) = 1
    /\ Reader_bytes_keys(reader[1]) # Reader_bytes_values(reader[1])

(***************************************************************************)
(* Fileset properties.                                                     *)
(***************************************************************************)
\* the reload interval in force: the one of the options, else the default
IntervalOf(opt) == IF opt # None THEN opt[1] ELSE DefaultReloadInterval

\* C22: Fileset.reload() is ignored when less than the configured reload
\* interval (default 60 seconds) has passed since the last reload: the set of
\* opened files is then unchanged; when the interval has passed the listing is
\* re-read and the opened set becomes exactly the listed files.  Reads issued
\* before a reload are not interrupted: an iterator yields the merge of the
\* files that were opened when it was created.
C22_ReloadInterval ==
    /\ IsOp("reload") =>
          lastOp[1].after =
              IF lastOp[1].at - lastOp[1].last < IntervalOf(lastOp[1].interval)
              THEN lastOp[1].before
              ELSE lastOp[1].listing
    /\ (fileset # None /\ iter # None) =>
          /\ IsPrefixOf(out, ExpectedMerge(msources, mergeFn))
          /\ ended => out = ExpectedMerge(msources, mergeFn)

\* a reload after exactly the default interval replaced the opened set
C22_Witness ==
    /\ IsOp("reload")
    /\ lastOp[1].interval = None
    /\ lastOp[1].at - lastOp[1].last = DefaultReloadInterval
    /\ lastOp[1].before = <<1>>
    /\ lastOp[1].after = <<2, 1>>
    /\ fileset # None
    /\ fileset[1].mtbl_fileset.files = <<2, 1>>
    /\ iter = None

\* what get(k) returns on the merge of the listed files
ListedValue(listing, fn, k) ==
    LET hits == SelectSeq(ExpectedMerge(ListedEntries(listing), fn), LAMBDA p : p[1] = k)
    IN  IF hits = <<>> THEN None ELSE Some(hits[1][2])

\* C21: a Merger is thread-safe whatever sources it was given: a get issued by
\* one of several threads on a shared Merger returns what it would return if
\* run alone, that is the merged value of the key in the files its Fileset
\* source has, or is due to have, opened.
C21_SharedMergerSafe ==
    (merger # None /\ lastGet # None) =>
        lastGet[1].res = ListedValue(lastGet[1].files, mergeFn, lastGet[1].key)

(***************************************************************************)
(* Checksum verification.                                                  *)
(***************************************************************************)
\* the blocks of the file whose stored checksum does not match their content
BadBlocks(file) ==
    {b \in 1..Len(file.data) : file.data[b].crc # recs_checksum(file.data[b].recs)}

\* the block of the file that holds key k, 0 when none does
BlockOf(file, k) ==
    LET holding == {b \in 1..Len(file.data) :
                       \E i \in 1..Len(decode_block(file.data[b])) :
                           decode_block(file.data[b])[i].key = k}
    IN  IF holding = {} THEN 0 ELSE CHOOSE b \in holding : TRUE

\* the number of entries in the blocks before the first block of a set
EntriesBefore(file, blocks) ==
    LET first == CHOOSE b \in blocks : \A c \in blocks : b <= c
    IN  CountRecs(SubSeq(file.data, 1, first - 1))

RECURSIVE BlockEntries(_)
BlockEntries(blocks) ==
    IF blocks = <<>> THEN <<>>
    ELSE decode_block(Head(blocks)) \o BlockEntries(Tail(blocks))

\* C25: after any sequence of Writer.add calls and finalization, the index
\* holds exactly one entry per data block, in file order, each giving the key
\* of the last entry of its block and the byte offset of that block; the index
\* keys are strictly increasing, every block is non-empty, and every accepted
\* entry lies in exactly one block.
C25_IndexCoversBlocks ==
    (writer = None /\ disk.footer # None) =>
        /\ disk.index # None
        /\ LET idx == decode_block(disk.index[1])
           IN  /\ Len(idx) = Len(disk.data)
               /\ \A b \in 1..Len(disk.data) :
                     /\ decode_block(disk.data[b]) # <<>>
                     /\ idx[b].key = Last(decode_block(disk.data[b])).key
                     /\ idx[b].val = <<data_bytes(SubSeq(disk.data, 1, b - 1))>>
               /\ \A b \in 1..(Len(idx) - 1) : LexLess(idx[b].key, idx[b + 1].key)
        /\ BlockEntries(disk.data) = accepted

C25_Witness ==
    /\ writer = None
    /\ disk.footer # None
    /\ Len(disk.data) = 2
    /\ Len(decode_block(disk.data[1])) = 2
    /\ Len(decode_block(disk.data[2])) = 1
    /\ Len(accepted) = 3
    /\ rejected = {}

(***************************************************************************)
(* What a Sorter hands to its Writer.                                      *)
(***************************************************************************)
\* C26: during the finalization of a Sorter whose Writer had no entries
\* before, the keys the Sorter passes to the Writer form a strictly increasing
\* sequence, for every add history and every number of spilled runs, so the
\* Writer never rejects an add coming from the Sorter.
C26_SorterFeedsAscending ==
    (IsOp("drop") /\ accepted = <<>>) =>
        /\ \A i \in 1..(Len(lastOp[1].passed) - 1) :
              LexLess(lastOp[1].passed[i].key, lastOp[1].passed[i + 1].key)
        /\ KeysOf(lastOp[1].passed) = KeysOf(scalls)
        /\ lastOp[1].engine = "success"
        /\ CountRecs(disk.data) = Len(lastOp[1].passed)

C26_Witness ==
    /\ IsOp("drop")
    /\ accepted = <<>>
    /\ lastOp[1].spilled >= 2
    /\ Len(scalls) = 4
    /\ scalls[1].key = <<1, 2>>
    /\ scalls[4].key = <<1>>
    /\ Len(lastOp[1].passed) = 2
    /\ lastOp[1].engine = "success"

\* C27: a Writer that already accepted entries before it was handed to a
\* Sorter treats them as previously added: at finalization every Sorter output
\* key that is not strictly greater than the Writer's last accepted key is
\* rejected and not written, and the entries the Writer held before remain in
\* the file unchanged.
C27_UsedWriterKeepsOrder ==
    (IsOp("drop") /\ accepted # <<>>) =>
        LET contents == FileContents(disk)
            last     == Last(accepted).key
            stale    == {i \in 1..Len(lastOp[1].passed) :
                            ~LexLess(last, lastOp[1].passed[i].key)}
        IN  /\ Reader_open_from_file(disk) # None
            /\ IsPrefixOf(Pairs(accepted), contents)
            /\ \A i \in (Len(accepted) + 1)..Len(contents) : LexLess(last, contents[i][1])
            /\ \A i \in stale :
                  <<lastOp[1].passed[i].key, lastOp[1].passed[i].val>> \notin
                      {contents[j] : j \in (Len(accepted) + 1)..Len(contents)}
            /\ stale # {} => lastOp[1].engine = "failure"

C27_Witness ==
    /\ IsOp("drop")
    /\ accepted = <<[key |-> <<1>>, val |-> <<1>>]>>
    /\ Len(lastOp[1].passed) = 2
    /\ lastOp[1].passed[1].key = <<1>>
    /\ lastOp[1].passed[1].val = <<2>>
    /\ lastOp[1].passed[2].key = <<1, 2>>
    /\ lastOp[1].engine = "failure"
    /\ FileContents(disk) = Pairs(accepted)

\* C28: every temporary spill file a Sorter created is deleted by the time
\* the Sorter has been destroyed, both when the final merge completed and when
\* it did not: no spill file exists after the drop, and none was deleted while
\* the merge still read it, so the merge saw every key that was added.
C28_SpillFilesDeleted ==
    IsOp("drop") =>
        /\ lastOp[1].tmp = <<>>
        /\ KeysOf(lastOp[1].passed) = KeysOf(scalls)

\* a drop of a Sorter with two spill files whose merge the Writer broke off
C28_Witness ==
    /\ IsOp("drop")
    /\ lastOp[1].spilled = 2
    /\ lastOp[1].engine = "failure"
    /\ lastOp[1].tmp = <<>>
    /\ accepted # <<>>

\* C29: a Writer that is finalized after zero accepted adds still produces a
\* valid file: a Reader opens it successfully, iter() yields nothing, every
\* get returns None, and count_entries and count_data_blocks are 0.
C29_EmptyFileValid ==
    (writer = None /\ accepted = <<>>) =>
        /\ Reader_open_from_file(disk) # None
        /\ reader # None =>
              /\ Reader_count_entries(reader[1]) = 0
              /\ Reader_count_data_blocks(reader[1]) = 0
              /\ \A k \in Keys : Read_get(reader[1], k) = None
              /\ lastGet # None => lastGet[1].res = None
              /\ iter # None => out = <<>>
              /\ Iter_next(reader[1], Read_iter(reader[1])).item = None

\* the file of a Writer dropped with no add at all, opened and iterated to
\* its end
C29_Witness ==
    /\ writer = None
    /\ accepted = <<>>
    /\ ncalls = 0
    /\ reader # None
    /\ iter # None
    /\ query[1].kind = "iter"
    /\ ended
    /\ out = <<>>

====
